---- MODULE Spec2Model ----
(***************************************************************************)
(* Model of the AIML pattern-matching engine (class AIMLEngine of          *)
(* aiml-actions/engine/aiml_engine.py): normaliser, pattern matcher,       *)
(* template interpreter and the respond facade.                            *)
(*                                                                         *)
(* Text is modelled character by character: a Python str is a sequence of  *)
(* one-character strings, so that upper(), split(), join(), strip() and    *)
(* the regular expression built by _pattern_match are computed, not        *)
(* assumed.                                                                *)
(***************************************************************************)
EXTENDS Integers, Sequences, FiniteSets, TLC

(***************************************************************************)
(* Characters and the str methods the engine uses.                         *)
(***************************************************************************)
LowerLetters == <<"a","b","c","d","e","f","g","h","i","j","k","l","m",
                  "n","o","p","q","r","s","t","u","v","w","x","y","z">>

UpperLetters == <<"A","B","C","D","E","F","G","H","I","J","K","L","M",
                  "N","O","P","Q","R","S","T","U","V","W","X","Y","Z">>

Digits == <<"0","1","2","3","4","5","6","7","8","9">>

Range(f) == { f[i] : i \in DOMAIN f }

LowerSet == Range(LowerLetters)

UpperSet == Range(UpperLetters)

DigitSet == Range(Digits)

\* the characters of the regex class \w
WordChars == LowerSet \cup UpperSet \cup DigitSet \cup {"_"}

\* the characters of the regex class \s (the separators of str.split(), str.strip())
SpaceChars == {" ", "\t", "\n"}

\* lower-case letter -> upper-case letter
ToUpper == [c \in LowerSet |-> UpperLetters[CHOOSE i \in DOMAIN LowerLetters : LowerLetters[i] = c]]

\* upper-case letter -> lower-case letter
ToLower == [c \in UpperSet |-> LowerLetters[CHOOSE i \in DOMAIN UpperLetters : UpperLetters[i] = c]]

\* str.upper() on one character
UpperChar(c) == IF c \in LowerSet THEN ToUpper[c] ELSE c

\* str.lower() on one character
LowerChar(c) == IF c \in UpperSet THEN ToLower[c] ELSE c

\* str.upper()
Upper(s) == [i \in 1..Len(s) |-> UpperChar(s[i])]

\* str.lower()
Lower(s) == [i \in 1..Len(s) |-> LowerChar(s[i])]

IsSpace(c) == c \in SpaceChars

IsWordChar(c) == c \in WordChars

\* the four wildcard glyphs
WildcardGlyphs == {"*", "_", "#", "^"}

\* number of leading whitespace characters of s from position pos on
RECURSIVE WsRun(_, _)
WsRun(s, pos) ==
  IF pos <= Len(s) /\ IsSpace(s[pos]) THEN 1 + WsRun(s, pos + 1) ELSE 0

\* number of leading non-whitespace characters of s from position pos on
RECURSIVE WordRun(_, _)
WordRun(s, pos) ==
  IF pos <= Len(s) /\ ~IsSpace(s[pos]) THEN 1 + WordRun(s, pos + 1) ELSE 0

\* str.split(): the maximal runs of non-whitespace characters, in order
RECURSIVE SplitFrom(_, _)
SplitFrom(s, pos) ==
  IF pos > Len(s) THEN <<>>
  ELSE IF IsSpace(s[pos]) THEN SplitFrom(s, pos + 1)
  ELSE LET n == WordRun(s, pos)
       IN  <<SubSeq(s, pos, pos + n - 1)>> \o SplitFrom(s, pos + n)

Split(s) == SplitFrom(s, 1)

\* ' '.join(words)
RECURSIVE JoinSpace(_)
JoinSpace(words) ==
  IF Len(words) = 0 THEN <<>>
  ELSE IF Len(words) = 1 THEN words[1]
  ELSE words[1] \o <<" ">> \o JoinSpace(Tail(words))

\* str.strip()
RECURSIVE RStrip(_)
RStrip(s) ==
  IF Len(s) > 0 /\ IsSpace(s[Len(s)]) THEN RStrip(SubSeq(s, 1, Len(s) - 1)) ELSE s

Strip(s) == RStrip(SubSeq(s, 1 + WsRun(s, 1), Len(s)))

(***************************************************************************)
(* AIMLEngine._normalize                                                   *)
(***************************************************************************)
KeptByNormalize(c) == IsWordChar(c) \/ IsSpace(c) \/ c \in WildcardGlyphs

\* a normalizer that leaves the case of the letters as it is
NormalizeKeepsCase(text) ==
  JoinSpace(Split(SelectSeq(text, KeptByNormalize)))

Normalize(text) ==
  LET up   == Upper(text)
      kept == SelectSeq(up, KeptByNormalize)
  IN  JoinSpace(Split(kept))

(***************************************************************************)
(* AIMLEngine._pattern_match: the regular expression                       *)
(*   ^\s*  part_1 \s+ part_2 \s+ ... \s+ part_n  \s*$                      *)
(* matched by re.match with re.IGNORECASE, as a backtracking matcher that  *)
(* tries the alternatives in the order Python's engine tries them (greedy  *)
(* \s* and \s+ longest first, lazy groups shortest first), so the groups   *)
(* returned are those of the first successful match.                       *)
(***************************************************************************)
IsBroadToken(part)  == part = <<"*">> \/ part = <<"_">>
IsNarrowToken(part) == part = <<"#">> \/ part = <<"^">>
IsWildcardToken(part) == IsBroadToken(part) \/ IsNarrowToken(part)

\* faulty variant of TokenScore: every wildcard scores alike
TokenScoreFlat(part) == IF IsWildcardToken(part) THEN 1 ELSE 10

\* a score that ranks every wildcard token above a literal token
TokenScoreWildcardsAbove(part) == IF IsWildcardToken(part) THEN 11 ELSE 10

\* the score the loop of _pattern_match adds for one token
TokenScore(part) ==
  IF part = <<"*">> THEN 1
  ELSE IF part = <<"_">> THEN 2
  ELSE IF part = <<"#">> THEN 1
  ELSE IF part = <<"^">> THEN 3
  ELSE 10

RECURSIVE PatternScore(_)
PatternScore(parts) ==
  IF Len(parts) = 0 THEN 0 ELSE TokenScore(parts[1]) + PatternScore(Tail(parts))

ReFail == [ok |-> FALSE, groups |-> <<>>]

\* re.escape(part) under re.IGNORECASE at position pos
LiteralAt(part, s, pos) ==
  /\ pos + Len(part) - 1 <= Len(s)
  /\ \A k \in 1..Len(part) : UpperChar(s[pos + k - 1]) = UpperChar(part[k])

\* "." matches any character but a newline
DotRun(s, pos, n) == \A k \in pos..(pos + n - 1) : s[k] # "\n"

RECURSIVE RePart(_, _, _, _), ReAfter(_, _, _, _), ReSep(_, _, _, _, _),
          ReLazy(_, _, _, _, _)

\* faulty variant of ReEnd: the expression is not anchored at the end
ReEndUnanchored(s, pos) == [ok |-> TRUE, groups |-> <<>>]

\* faulty variant of RePart: a narrow wildcard compiled as (.+?)
RePartNarrowAsBroad(parts, i, s, pos) ==
  IF IsWildcardToken(parts[i]) THEN ReLazy(parts, i, s, pos, 1)
  ELSE IF LiteralAt(parts[i], s, pos)
         THEN ReAfter(parts, i, s, pos + Len(parts[i]))
         ELSE ReFail

\* the trailing \s*$
ReEnd(s, pos) ==
  IF pos + WsRun(s, pos) = Len(s) + 1 THEN [ok |-> TRUE, groups |-> <<>>] ELSE ReFail

\* part i of the pattern at position pos, then the rest of the expression
RePart(parts, i, s, pos) ==
  IF IsBroadToken(parts[i]) THEN ReLazy(parts, i, s, pos, 1)         \* (.+?)
  ELSE IF IsNarrowToken(parts[i]) THEN ReLazy(parts, i, s, pos, 0)   \* (.*?)
  ELSE IF LiteralAt(parts[i], s, pos)
         THEN ReAfter(parts, i, s, pos + Len(parts[i]))
         ELSE ReFail

\* what follows part i: \s+ and part i+1, or the trailing \s*$
ReAfter(parts, i, s, pos) ==
  IF i = Len(parts) THEN ReEnd(s, pos)
  ELSE ReSep(parts, i + 1, s, pos, WsRun(s, pos))

\* \s+ (greedy) consuming k characters, k tried downwards to 1, then part i
ReSep(parts, i, s, pos, k) ==
  IF k < 1 THEN ReFail
  ELSE LET r == RePart(parts, i, s, pos + k)
       IN  IF r.ok THEN r ELSE ReSep(parts, i, s, pos, k - 1)

\* a lazy group consuming n characters, n tried upwards
ReLazy(parts, i, s, pos, n) ==
  IF pos + n - 1 > Len(s) \/ ~DotRun(s, pos, n) THEN ReFail
  ELSE LET r == ReAfter(parts, i, s, pos + n)
       IN  IF r.ok
             THEN [ok |-> TRUE, groups |-> <<SubSeq(s, pos, pos + n - 1)>> \o r.groups]
             ELSE ReLazy(parts, i, s, pos, n + 1)

\* the leading ^\s* (greedy) consuming k characters, k tried downwards to 0
RECURSIVE ReLead(_, _, _)
ReLead(parts, s, k) ==
  IF k < 0 THEN ReFail
  ELSE LET r == IF Len(parts) = 0 THEN ReEnd(s, 1 + k) ELSE RePart(parts, 1, s, 1 + k)
       IN  IF r.ok THEN r ELSE ReLead(parts, s, k - 1)

\* re.search in the place of re.match: the expression may start anywhere
ReMatchAnywhere(parts, s) ==
  LET from(p) == SubSeq(s, p, Len(s))
      starts  == { p \in 1..(Len(s) + 1) : ReLead(parts, from(p), WsRun(from(p), 1)).ok }
      first   == CHOOSE p \in starts : \A q \in starts : p <= q
  IN  IF starts = {} THEN ReFail
      ELSE ReLead(parts, from(first), WsRun(from(first), 1))

ReMatch(parts, s) == ReLead(parts, s, WsRun(s, 1))

\* s in reverse order
Reversed(s) == [k \in 1..Len(s) |-> s[Len(s) + 1 - k]]

\* faulty variant of PatternMatch: the groups are returned last first
PatternMatchReversed(pattern, input) ==
  LET parts == Split(pattern)
      m     == ReMatch(parts, input)
  IN  IF m.ok THEN [ok |-> TRUE, stars |-> Reversed(m.groups), score |-> PatternScore(parts)]
      ELSE [ok |-> FALSE, stars |-> <<>>, score |-> 0]

\* _pattern_match(pattern, input_text): (stars, score), stars None on failure
PatternMatch(pattern, input) ==
  LET parts == Split(pattern)
      m     == ReMatch(parts, input)
  IN  IF m.ok THEN [ok |-> TRUE, stars |-> m.groups, score |-> PatternScore(parts)]
      ELSE [ok |-> FALSE, stars |-> <<>>, score |-> 0]

(***************************************************************************)
(* Data structures: Category, ActionResult, the parsed template tree.      *)
(*                                                                         *)
(* None is a value no str equals.  An element of a template tree is        *)
(*   [tag, attrs, text, kids, tail]                                        *)
(* as xml.etree.ElementTree gives it: attrs maps the attribute names that  *)
(* are present to their values, text and tail are empty when absent.       *)
(* A template is its XML text together with what ET.fromstring makes of    *)
(* it: a tree, or ParseError when the text is not well-formed.             *)
(***************************************************************************)
None == <<"None">>

NoAttrs == [a \in {} |-> <<>>]

Elem(tag, attrs, text, kids, tail) ==
  [tag |-> tag, attrs |-> attrs, text |-> text, kids |-> kids, tail |-> tail]

\* element.get(name, default)
Attr(el, name, default) ==
  IF name \in DOMAIN el.attrs THEN el.attrs[name] ELSE default

\* <template>...</template> with the given text and children
TemplateRoot(text, kids) == Elem("template", NoAttrs, text, kids, <<>>)

WellFormed(root) == [wellformed |-> TRUE, xml |-> <<>>, root |-> root]

Malformed(xml) == [wellformed |-> FALSE, xml |-> xml, root |-> TemplateRoot(<<>>, <<>>)]

\* Category(pattern, template, that, topic)
Category(pattern, template, that, topic) ==
  [pattern |-> pattern, template |-> template, that |-> that, topic |-> topic]

\* ActionResult(text="")
NewResult ==
  [text |-> <<>>, action |-> "None", workflow |-> None, inputs |-> None,
   choices |-> None, confirm |-> None, learn |-> None]

(***************************************************************************)
(* State of one AIMLEngine.  last records the most recent call: which      *)
(* operation, its argument, the session's preceding response when the call *)
(* began, what the call gave back (a result, None, or an exception) and    *)
(* the respond calls it made.                                              *)
(***************************************************************************)
VARIABLES categories, variables, topic, that, history, last

\* State around the engine.  pending_learn is AIMLActionsEngine.pending_learn;
\* adventures and current_state are the fields of one AdventureEngine; reply
\* records the most recent call of AIMLActionsEngine or AdventureEngine.
VARIABLES pending_learn, adventures, current_state, reply

outer == <<pending_learn, adventures, current_state, reply>>

vars == <<categories, variables, topic, that, history, last,
          pending_learn, adventures, current_state, reply>>

AnyTopic == <<"*">>

NoExc == "none"

\* dict.get(name, default)
DictGet(d, name, default) == IF name \in DOMAIN d THEN d[name] ELSE default

\* a dict that keeps the first value assigned to a name
DictSetOnce(d, name, value) ==
  [n \in DOMAIN d \cup {name} |-> IF n \in DOMAIN d THEN d[n] ELSE value]

\* d[name] = value
DictSet(d, name, value) ==
  [n \in DOMAIN d \cup {name} |-> IF n = name THEN value ELSE d[n]]

(***************************************************************************)
(* AIMLEngine._match_pattern: the loop over self.categories, from          *)
(* category i on, with the best match and best score found so far.  A      *)
(* match names its category by its position in the store.                  *)
(***************************************************************************)
NoMatch == [matched |-> FALSE, stars |-> <<>>, category |-> 0]

\* faulty variants of the loop's three tests: no topic filter, no
\* preceding-response filter, a later category of equal score replaces the
\* best one
TopicSkipsNever(category) == FALSE

ThatSkipsNever(category, sessionThat) == FALSE

BetterOrEqual(m, bestScore) == m.ok /\ m.score >= bestScore

\* "category.topic != '*' and category.topic != self.topic": skipped
TopicSkips(category) == category.topic # AnyTopic /\ category.topic # topic

\* "category.that and category.that != self.that": skipped
ThatSkips(category, sessionThat) ==
  category.that # None /\ category.that # <<>> /\ category.that # sessionThat

\* "stars is not None and score > best_score"
Better(m, bestScore) == m.ok /\ m.score > bestScore

RECURSIVE MatchLoop(_, _, _, _, _)
MatchLoop(i, input, sessionThat, best, bestScore) ==
  IF i > Len(categories) THEN best
  ELSE LET category == categories[i]
       IN  IF TopicSkips(category) THEN MatchLoop(i + 1, input, sessionThat, best, bestScore)
           ELSE IF ThatSkips(category, sessionThat)
             THEN MatchLoop(i + 1, input, sessionThat, best, bestScore)
           ELSE LET m == PatternMatch(category.pattern, input)
                IN  IF Better(m, bestScore)
                      THEN MatchLoop(i + 1, input, sessionThat,
                                     [matched |-> TRUE, stars |-> m.stars, category |-> i],
                                     m.score)
                      ELSE MatchLoop(i + 1, input, sessionThat, best, bestScore)

MatchPattern(input, sessionThat) == MatchLoop(1, input, sessionThat, NoMatch, -1)

(***************************************************************************)
(* int(text) as the star tag uses it: a decimal literal, with an optional  *)
(* sign and surrounding whitespace; anything else raises ValueError.       *)
(***************************************************************************)
IsIntLiteral(text) ==
  LET t == Strip(text)
      d == IF Len(t) > 0 /\ t[1] \in {"+", "-"} THEN Tail(t) ELSE t
  IN  Len(d) > 0 /\ \A k \in 1..Len(d) : d[k] \in DigitSet

DigitValue(c) == (CHOOSE i \in DOMAIN Digits : Digits[i] = c) - 1

RECURSIVE DecimalValue(_)
DecimalValue(d) ==
  IF Len(d) = 0 THEN 0
  ELSE 10 * DecimalValue(SubSeq(d, 1, Len(d) - 1)) + DigitValue(d[Len(d)])

IntOf(text) ==
  LET t == Strip(text)
  IN  IF t[1] = "-" THEN 0 - DecimalValue(Tail(t))
      ELSE IF t[1] = "+" THEN DecimalValue(Tail(t))
      ELSE DecimalValue(t)

\* element.findall("li"): the direct children with that tag
FindAll(el, tag) == SelectSeq(el.kids, LAMBDA k : k.tag = tag)

\* child.tag.lower() for the tag spellings templates use
TagLower(tag) ==
  CASE tag = "SRAI" -> "srai"
    [] tag = "Star" -> "star"
    [] tag = "THINK" -> "think"
    [] OTHER -> tag

(***************************************************************************)
(* str.replace, str(int), str.split(sep) and ElementTree's itertext, as    *)
(* the action, choice and learn-action tags use them.                      *)
(***************************************************************************)
\* old occurs in s at position pos
OccursAt(old, s, pos) ==
  /\ pos + Len(old) - 1 <= Len(s)
  /\ \A k \in 1..Len(old) : s[pos + k - 1] = old[k]

\* the least of a non-empty set of positions
Least(positions) == CHOOSE p \in positions : \A q \in positions : p <= q

\* s.replace(old, new) from position pos on: the occurrences of old, found
\* left to right and not overlapping, each replaced by new (old is never
\* empty here)
RECURSIVE ReplaceFrom(_, _, _, _)
ReplaceFrom(s, pos, old, new) ==
  LET hits == { p \in pos..Len(s) : OccursAt(old, s, p) }
  IN  IF hits = {} THEN SubSeq(s, pos, Len(s))
      ELSE SubSeq(s, pos, Least(hits) - 1) \o new
             \o ReplaceFrom(s, Least(hits) + Len(old), old, new)

Replace(s, old, new) == ReplaceFrom(s, 1, old, new)

\* str(n) for n >= 0
RECURSIVE IntToStr(_)
IntToStr(n) ==
  IF n < 10 THEN <<Digits[n + 1]>> ELSE IntToStr(n \div 10) \o <<Digits[(n % 10) + 1]>>

\* f'<star index="{i}"/>'
StarRef(i) ==
  <<"<", "s", "t", "a", "r", " ", "i", "n", "d", "e", "x", "=", "\"">>
    \o IntToStr(i) \o <<"\"", "/", ">">>

\* '<star/>'
StarRefBare == <<"<", "s", "t", "a", "r", "/", ">">>

\* s.split(sep) for a one-character sep, from position pos on
RECURSIVE SplitOnFrom(_, _, _)
SplitOnFrom(s, pos, sep) ==
  LET hits == { p \in pos..Len(s) : s[p] = sep }
  IN  IF hits = {} THEN <<SubSeq(s, pos, Len(s))>>
      ELSE <<SubSeq(s, pos, Least(hits) - 1)>> \o SplitOnFrom(s, Least(hits) + 1, sep)

SplitOn(s, sep) == SplitOnFrom(s, 1, sep)

\* "".join(element.itertext()): the element's text, then for each child its
\* own itertext and its tail
RECURSIVE IterText(_), IterTextKids(_, _)
IterText(el) == el.text \o IterTextKids(el.kids, 1)

IterTextKids(kids, k) ==
  IF k > Len(kids) THEN <<>>
  ELSE IterText(kids[k]) \o kids[k].tail \o IterTextKids(kids, k + 1)

(***************************************************************************)
(* json.loads on the documents workflow inputs are written in: objects     *)
(* with string keys, strings without escapes, integers, nested at will.    *)
(* Any other text is answered as json.JSONDecodeError; arrays, fractions,  *)
(* true, false, null and escapes do not occur in the templates modelled.   *)
(* A parsed value is [json, items, text, number]; an object keeps its      *)
(* members in insertion order, a repeated key keeping its first place and  *)
(* its last value, as a Python dict does.                                  *)
(***************************************************************************)
JValueOf(kind, items, text, number) ==
  [json |-> kind, items |-> items, text |-> text, number |-> number]

JObj(items) == JValueOf("object", items, <<>>, 0)

JStr(text) == JValueOf("string", <<>>, text, 0)

JNum(number) == JValueOf("number", <<>>, <<>>, number)

\* the empty dict {}
EmptyDict == JObj(<<>>)

JFail == [ok |-> FALSE, value |-> EmptyDict, pos |-> 0]

JOk(value, pos) == [ok |-> TRUE, value |-> value, pos |-> pos]

\* d[key] = value on the members of an object
RECURSIVE JPut(_, _, _)
JPut(items, key, value) ==
  IF Len(items) = 0 THEN << [key |-> key, value |-> value] >>
  ELSE IF items[1].key = key THEN << [key |-> key, value |-> value] >> \o Tail(items)
  ELSE <<items[1]>> \o JPut(Tail(items), key, value)

SkipWs(s, pos) == pos + WsRun(s, pos)

CharAt(s, pos) == IF pos <= Len(s) THEN s[pos] ELSE ""

\* number of characters from pos on, up to the first that is in stops or
\* to the end
RunUntil(s, pos, stops) ==
  Least({ p \in pos..(Len(s) + 1) : p = Len(s) + 1 \/ s[p] \in stops }) - pos

\* number of characters from pos on that may stand inside a string
JPlainRun(s, pos) == RunUntil(s, pos, {"\"", "\\", "\n", "\t"})

\* number of digits from pos on
DigitRun(s, pos) ==
  Least({ p \in pos..(Len(s) + 1) : p = Len(s) + 1 \/ s[p] \notin DigitSet }) - pos

\* a string starting at pos
JString(s, pos) ==
  IF CharAt(s, pos) # "\"" THEN JFail
  ELSE LET n == JPlainRun(s, pos + 1)
       IN  IF CharAt(s, pos + 1 + n) = "\""
             THEN JOk(JStr(SubSeq(s, pos + 1, pos + n)), pos + n + 2)
             ELSE JFail

\* an integer starting at pos
JNumber(s, pos) ==
  LET neg   == CharAt(s, pos) = "-"
      first == IF neg THEN pos + 1 ELSE pos
      n     == DigitRun(s, first)
      value == DecimalValue(SubSeq(s, first, first + n - 1))
  IN  IF n = 0 \/ (n > 1 /\ s[first] = "0") \/ CharAt(s, first + n) \in {".", "e", "E"}
        THEN JFail
        ELSE JOk(JNum(IF neg THEN 0 - value ELSE value), first + n)

RECURSIVE JValue(_, _), JMembers(_, _, _), JAfterKey(_, _, _), JAfterValue(_, _, _, _)

\* a value starting at pos
JValue(s, pos) ==
  IF CharAt(s, pos) = "{"
    THEN IF CharAt(s, SkipWs(s, pos + 1)) = "}"
           THEN JOk(EmptyDict, SkipWs(s, pos + 1) + 1)
           ELSE JMembers(s, SkipWs(s, pos + 1), <<>>)
  ELSE IF CharAt(s, pos) = "\"" THEN JString(s, pos)
  ELSE JNumber(s, pos)

\* the members of an object from pos on, items being those read so far
JMembers(s, pos, items) == JAfterKey(s, items, JString(s, pos))

JAfterKey(s, items, key) ==
  IF ~key.ok \/ CharAt(s, SkipWs(s, key.pos)) # ":" THEN JFail
  ELSE JAfterValue(s, items, key.value.text,
                   JValue(s, SkipWs(s, SkipWs(s, key.pos) + 1)))

JAfterValue(s, items, key, member) ==
  IF ~member.ok THEN JFail
  ELSE IF CharAt(s, SkipWs(s, member.pos)) = ","
    THEN JMembers(s, SkipWs(s, SkipWs(s, member.pos) + 1), JPut(items, key, member.value))
  ELSE IF CharAt(s, SkipWs(s, member.pos)) = "}"
    THEN JOk(JObj(JPut(items, key, member.value)), SkipWs(s, member.pos) + 1)
  ELSE JFail

\* the document must end after the value
JWhole(s, v) == IF v.ok /\ SkipWs(s, v.pos) = Len(s) + 1 THEN v ELSE JFail

\* json.loads(s): ok FALSE stands for json.JSONDecodeError
JsonLoads(s) == JWhole(s, JValue(s, SkipWs(s, 1)))

(***************************************************************************)
(* The template interpreter and respond.  They call each other (the srai   *)
(* tag re-enters respond), so they are one family of recursive operators.  *)
(* The session fields a call can change travel in                          *)
(*   st = [variables, that, history, exc, calls, events, oracle]           *)
(* where exc names the exception that is propagating (NoExc when none):    *)
(* once an exception is raised nothing further is evaluated, and what was  *)
(* written before it stays written.  calls lists the respond calls made so *)
(* far, in the order they ran the matcher: the input, the preceding        *)
(* response the matcher saw, and its match.  depth counts the nested       *)
(* respond calls on the interpreter's stack; the interpreter raises        *)
(* RecursionError when the stack is exhausted.                             *)
(*                                                                         *)
(* events is the trace of the evaluation, in the order things happened:    *)
(* the variable reads and assignments of get and set tags, the writes to   *)
(* fields of the result object, and the draws of random.choice, each with  *)
(* the depth of the respond call that made it.  oracle holds the draws     *)
(* random.choice is still to make.                                         *)
(***************************************************************************)
PyRecursionLimit == 3

Raise(st, exc) == [st EXCEPT !.exc = exc]

Ret(st, res, out) == [st |-> st, res |-> res, out |-> out]

Emit(st, kind, depth, field, name, value) ==
  [st EXCEPT !.events =
     Append(@, [kind |-> kind, depth |-> depth, field |-> field, name |-> name,
                value |-> value])]

\* a result object whose fields keep the first value written to them
WriteOnce(r, depth, field, value) ==
  Ret(Emit(r.st, "write", depth, field, <<>>, value),
      IF r.res[field] = NewResult[field] THEN [r.res EXCEPT ![field] = value] ELSE r.res,
      r.out)

\* "result.<field> = value"
Write(r, depth, field, value) ==
  Ret(Emit(r.st, "write", depth, field, <<>>, value),
      [r.res EXCEPT ![field] = value], r.out)

\* random.choice(items): the next draw of the oracle, as a position of items
Drawn(st, items) ==
  IF Len(st.oracle) = 0 THEN 1 ELSE ((st.oracle[1] - 1) % Len(items)) + 1

\* str.title(): a letter is upper-cased after a non-letter and lower-cased
\* after a letter
IsLetter(c) == c \in LowerSet \cup UpperSet

Title(s) ==
  [i \in 1..Len(s) |->
     IF i > 1 /\ IsLetter(s[i - 1]) THEN LowerChar(s[i]) ELSE UpperChar(s[i])]

\* a loop that puts the first capture in the place of every reference
RECURSIVE SubstituteStarsAllFirst(_, _, _)
SubstituteStarsAllFirst(text, stars, i) ==
  IF i > Len(stars) THEN text
  ELSE SubstituteStarsAllFirst(Replace(Replace(text, StarRef(i), stars[1]), StarRefBare, stars[1]),
                               stars, i + 1)

\* the action tag's loop over enumerate(stars), from star i on
RECURSIVE SubstituteStars(_, _, _)
SubstituteStars(text, stars, i) ==
  IF i > Len(stars) THEN text
  ELSE SubstituteStars(Replace(Replace(text, StarRef(i), stars[i]), StarRefBare, stars[1]),
                       stars, i + 1)

\* the learn-action tag's loop over enumerate(stars), from star i on
RECURSIVE GeneralizeStars(_, _, _)
GeneralizeStars(text, stars, i) ==
  IF i > Len(stars) THEN text
  ELSE GeneralizeStars(Replace(text, StarRef(i), <<"*">>), stars, i + 1)

\* the action tag's inputs: json.loads, {} on JSONDecodeError
ActionInputs(child, stars) ==
  LET parsed == JsonLoads(SubstituteStars(Attr(child, "inputs", <<"{", "}">>), stars, 1))
  IN  IF parsed.ok THEN parsed.value ELSE EmptyDict

\* the choice tag's options: the option children, or else the non-empty
\* pieces of the pipe-separated text
OptionOf(option) == [value |-> Attr(option, "value", <<>>), label |-> IterText(option)]

PipedOption(piece) == [value |-> Lower(Strip(piece)), label |-> Strip(piece)]

ChoiceOptions(child) ==
  LET options == FindAll(child, "option")
      pieces  == SelectSeq(SplitOn(IterText(child), "|"), LAMBDA x : Strip(x) # <<>>)
  IN  [options |->
         IF Len(options) > 0 THEN [k \in 1..Len(options) |-> OptionOf(options[k])]
         ELSE [k \in 1..Len(pieces) |-> PipedOption(pieces[k])]]

\* a branch search that goes on after a passing li and keeps the last one
RECURSIVE FirstBranchKeepsLast(_, _, _, _)
FirstBranchKeepsLast(lis, k, name, vs) ==
  IF k > Len(lis) THEN [found |-> FALSE, element |-> Elem("li", NoAttrs, <<>>, <<>>, <<>>)]
  ELSE LET liName  == Attr(lis[k], "name", name)
           liValue == Attr(lis[k], "value", None)
           later   == FirstBranchKeepsLast(lis, k + 1, name, vs)
       IN  IF later.found THEN later
           ELSE IF liValue = None \/ DictGet(vs, liName, None) = liValue
             THEN [found |-> TRUE, element |-> lis[k]]
             ELSE later

\* the condition tag: the element whose content is evaluated, if any.  The
\* single form evaluates the condition element itself; the multi-branch
\* form evaluates the first li whose check passes ("break")
RECURSIVE FirstBranch(_, _, _, _)
FirstBranch(lis, k, name, vs) ==
  IF k > Len(lis) THEN [found |-> FALSE, element |-> Elem("li", NoAttrs, <<>>, <<>>, <<>>)]
  ELSE LET liName  == Attr(lis[k], "name", name)
           liValue == Attr(lis[k], "value", None)
       IN  IF liValue = None \/ DictGet(vs, liName, None) = liValue
             THEN [found |-> TRUE, element |-> lis[k]]
             ELSE FirstBranch(lis, k + 1, name, vs)

ConditionTarget(child, vs) ==
  LET name  == Attr(child, "name", None)
      value == Attr(child, "value", None)
  IN  IF name # None /\ name # <<>> /\ value # None /\ value # <<>>
        THEN [found |-> DictGet(vs, name, None) = value, element |-> child]
        ELSE FirstBranch(FindAll(child, "li"), 1, name, vs)

\* the random tag: the li that random.choice draws, if there is any li
RandomTarget(child, st) ==
  LET items == FindAll(child, "li")
  IN  IF Len(items) = 0 THEN [found |-> FALSE, element |-> child]
      ELSE [found |-> TRUE, element |-> items[Drawn(st, items)]]

\* the tags whose branch never evaluates the child's content
LeafTags == {"star", "get", "learn-action"}

\* the element whose content the branch for tag evaluates, if any
ContentTarget(tag, child, st) ==
  IF tag = "condition" THEN ConditionTarget(child, st.variables)
  ELSE IF tag = "random" THEN RandomTarget(child, st)
  ELSE [found |-> tag \notin LeafTags, element |-> child]

\* what the branch for tag does before it evaluates the content: random
\* draws, llm, action and choice write to the result
BeforeContent(tag, child, stars, st, res, depth) ==
  CASE tag = "random" /\ Len(FindAll(child, "li")) > 0 ->
         Ret(Emit([st EXCEPT !.oracle = IF Len(@) = 0 THEN @ ELSE Tail(@)],
                  "random", depth, "", <<>>, <<>>), res, <<>>)
    [] tag = "llm" -> Write(Ret(st, res, <<>>), depth, "action", "llm")
    [] tag = "action" ->
         Write(Write(Write(Ret(st, res, <<>>), depth, "action", "workflow"),
                     depth, "workflow", Attr(child, "workflow", None)),
               depth, "inputs", ActionInputs(child, stars))
    [] tag = "choice" -> Write(Ret(st, res, <<>>), depth, "choices", ChoiceOptions(child))
    [] OTHER -> Ret(st, res, <<>>)

(***************************************************************************)
(* The compute tag's eval(expr, {"__builtins__": {}}, {}) and str(...), on  *)
(* the fragment of Python's expression grammar made of decimal integer     *)
(* literals, the operators + - * (binary) and + - (unary), parentheses and *)
(* blanks.  ok is FALSE when eval raises (SyntaxError on this fragment).   *)
(***************************************************************************)
AFail == [ok |-> FALSE, value |-> 0, pos |-> 0]

AOk(value, pos) == [ok |-> TRUE, value |-> value, pos |-> pos]

\* the position of the first character from pos on that is no blank
SkipBlank(s, pos) ==
  Least({ p \in pos..(Len(s) + 1) : p = Len(s) + 1 \/ s[p] \notin {" ", "\t"} })

\* an integer literal at pos: zeros may lead only a literal of zeros
ANumber(s, pos) ==
  LET n == DigitRun(s, pos)
      d == SubSeq(s, pos, pos + n - 1)
  IN  IF n > 1 /\ d[1] = "0" /\ \E k \in 1..n : d[k] # "0" THEN AFail
      ELSE AOk(DecimalValue(d), pos + n)

ANegate(v) == IF v.ok THEN AOk(0 - v.value, v.pos) ELSE AFail

ATimes(left, right) == IF right.ok THEN AOk(left.value * right.value, right.pos) ELSE AFail

APlus(left, right) == IF right.ok THEN AOk(left.value + right.value, right.pos) ELSE AFail

AMinus(left, right) == IF right.ok THEN AOk(left.value - right.value, right.pos) ELSE AFail

\* the closing parenthesis after the expression inside
AClose(s, inner) ==
  IF inner.ok /\ CharAt(s, SkipBlank(s, inner.pos)) = ")"
    THEN AOk(inner.value, SkipBlank(s, inner.pos) + 1)
    ELSE AFail

RECURSIVE AExpr(_, _), ASumRest(_, _), ATerm(_, _), AProductRest(_, _), AFactor(_, _)

AFactor(s, pos) ==
  LET p == SkipBlank(s, pos)
      c == CharAt(s, p)
  IN  IF c \in DigitSet THEN ANumber(s, p)
      ELSE IF c = "(" THEN AClose(s, AExpr(s, p + 1))
      ELSE IF c = "-" THEN ANegate(AFactor(s, p + 1))
      ELSE IF c = "+" THEN AFactor(s, p + 1)
      ELSE AFail

AProductRest(s, left) ==
  IF ~left.ok THEN AFail
  ELSE IF CharAt(s, SkipBlank(s, left.pos)) = "*"
    THEN AProductRest(s, ATimes(left, AFactor(s, SkipBlank(s, left.pos) + 1)))
  ELSE left

ATerm(s, pos) == AProductRest(s, AFactor(s, pos))

ASumRest(s, left) ==
  IF ~left.ok THEN AFail
  ELSE IF CharAt(s, SkipBlank(s, left.pos)) = "+"
    THEN ASumRest(s, APlus(left, ATerm(s, SkipBlank(s, left.pos) + 1)))
  ELSE IF CharAt(s, SkipBlank(s, left.pos)) = "-"
    THEN ASumRest(s, AMinus(left, ATerm(s, SkipBlank(s, left.pos) + 1)))
  ELSE left

AExpr(s, pos) == ASumRest(s, ATerm(s, pos))

\* eval(expr, ...): the whole text must be one expression
PyEval(expr) ==
  LET v == AExpr(expr, 1)
  IN  IF v.ok /\ SkipBlank(expr, v.pos) = Len(expr) + 1 THEN v ELSE AFail

\* str(computed) of an integer
PyStr(n) == IF n < 0 THEN <<"-">> \o IntToStr(0 - n) ELSE IntToStr(n)

\* the compute tag's output for the text its content gave
ComputeOutput(expr) ==
  IF PyEval(expr).ok THEN PyStr(PyEval(expr).value) ELSE expr

\* a star tag that gives whichever capture random.choice draws
StarTagAtRandom(child, stars, st, res) ==
  IF Len(stars) = 0 THEN Ret(st, res, <<>>)
  ELSE Ret(st, res, stars[Drawn(st, stars)])

\* the star tag
StarTag(child, stars, st, res) ==
  LET text == Attr(child, "index", <<"1">>)
  IN  IF ~IsIntLiteral(text) THEN Ret(Raise(st, "ValueError"), res, <<>>)
      ELSE LET index == IntOf(text) - 1
           IN  IF 0 <= index /\ index < Len(stars)
                 THEN Ret(st, res, stars[index + 1])
                 ELSE Ret(st, res, <<>>)

\* the branch of the if/elif chain for tag, given sub, the outcome of the
\* _process_element call the branch makes on the child's content: what the
\* branch writes and what it appends to output
TagBranch(tag, child, stars, st, res, depth, sub) ==
  CASE tag = "star" -> StarTag(child, stars, st, res)
    [] tag = "get" ->
         Ret(Emit(st, "get", depth, "", Attr(child, "name", <<>>),
                  DictGet(st.variables, Attr(child, "name", <<>>), <<>>)),
             res, DictGet(st.variables, Attr(child, "name", <<>>), <<>>))
    [] tag = "set" ->
         Ret(Emit([sub.st EXCEPT !.variables = DictSet(@, Attr(child, "name", <<>>), sub.out)],
                  "set", depth, "", Attr(child, "name", <<>>), sub.out),
             sub.res, sub.out)
    [] tag = "think" -> Ret(sub.st, sub.res, <<>>)
    [] tag = "uppercase" -> Ret(sub.st, sub.res, Upper(sub.out))
    [] tag = "lowercase" -> Ret(sub.st, sub.res, Lower(sub.out))
    [] tag = "formal" -> Ret(sub.st, sub.res, Title(sub.out))
    [] tag = "confirm" ->
         Write(Write(Ret(sub.st, sub.res, <<>>), depth, "confirm", sub.out),
               depth, "action", "confirm")
    [] tag = "llm" ->
         Ret(sub.st, sub.res, <<"[", "L", "L", "M", ":", " ">> \o sub.out \o <<"]">>)
    [] tag = "compute" -> Ret(sub.st, sub.res, ComputeOutput(sub.out))
    [] tag = "learn-action" ->
         Write(Write(Ret(st, res, <<>>), depth, "learn",
                     [pattern  |-> GeneralizeStars(Attr(child, "pattern", <<>>), stars, 1),
                      workflow |-> Attr(child, "workflow", <<>>)]),
               depth, "action", "learn")
    \* random, condition, action, choice and "Unknown tag - process
    \* children": the content's output
    [] OTHER -> sub

\* an srai that takes over the result object of the nested respond call
SraiBranchAdoptsResult(sub, call) ==
  IF call.st.exc # NoExc THEN Ret(call.st, sub.res, <<>>)
  ELSE IF call.returned THEN Ret(call.st, call.result, call.result.text)
  ELSE Ret(call.st, sub.res, <<>>)

\* the srai tag after its redirect text is evaluated: sub_result =
\* self.respond(redirect), and its text appended when it is not None
SraiBranch(sub, call) ==
  IF call.st.exc # NoExc THEN Ret(call.st, sub.res, <<>>)
  ELSE IF call.returned THEN Ret(call.st, sub.res, call.result.text)
  ELSE Ret(call.st, sub.res, <<>>)

\* _process_element's return: "".join(output).strip()
JoinedStripped(r) == Ret(r.st, r.res, Strip(r.out))

\* _process_template's "result.text = self._process_element(...)"
WithText(r) == Ret(r.st, [r.res EXCEPT !.text = r.out], <<>>)

RECURSIVE ProcessElement(_, _, _, _, _), ProcessChildren(_, _, _, _, _, _, _),
          NextChild(_, _, _, _, _, _), ProcessChild(_, _, _, _, _),
          AfterContent(_, _, _, _, _, _, _), ProcessTemplate(_, _, _, _),
          RespondCall(_, _, _), RespondMatched(_, _, _, _), RespondEnd(_, _, _)

\* _process_element(element, stars, result)
ProcessElement(element, stars, st, res, depth) ==
  JoinedStripped(ProcessChildren(element.kids, 1, stars, st, res, element.text, depth))

\* the loop "for child in element", from child k on, output being what the
\* loop has appended so far
ProcessChildren(kids, k, stars, st, res, output, depth) ==
  IF k > Len(kids) THEN Ret(st, res, output)
  ELSE NextChild(kids, k, stars, output, depth,
                 ProcessChild(kids[k], stars, st, res, depth))

\* the rest of the loop once child k gave c: its tail text is appended and
\* the loop goes on, unless the child raised
NextChild(kids, k, stars, output, depth, c) ==
  IF c.st.exc # NoExc THEN Ret(c.st, c.res, output)
  ELSE ProcessChildren(kids, k + 1, stars, c.st, c.res,
                       output \o c.out \o kids[k].tail, depth)

\* one pass of the loop body for child, up to its tail text: first what
\* the branch does before the content, then the _process_element call it
\* makes on the content, if it makes one
ProcessChild(child, stars, st, res, depth) ==
  LET tag    == TagLower(child.tag)
      target == ContentTarget(tag, child, st)
      before == BeforeContent(tag, child, stars, st, res, depth)
  IN  AfterContent(tag, child, stars, st, res, depth,
                   IF target.found
                     THEN ProcessElement(target.element, stars, before.st, before.res, depth)
                     ELSE Ret(st, res, <<>>))

\* then the rest of the branch; for srai, the nested respond call
AfterContent(tag, child, stars, st, res, depth, sub) ==
  IF sub.st.exc # NoExc THEN sub
  ELSE IF tag = "srai" THEN SraiBranch(sub, RespondCall(sub.out, sub.st, depth + 1))
  ELSE TagBranch(tag, child, stars, st, res, depth, sub)

\* a _process_template that answers a template it cannot parse with no text
ProcessTemplateDropsUnparsed(template, stars, st, depth) ==
  IF ~template.wellformed
    THEN Ret(st, NewResult, <<>>)
    ELSE WithText(ProcessElement(template.root, stars, st, NewResult, depth))

\* _process_template(template, stars)
ProcessTemplate(template, stars, st, depth) ==
  IF ~template.wellformed
    THEN Ret(st, [NewResult EXCEPT !.text = template.xml], <<>>)    \* ET.ParseError
    ELSE WithText(ProcessElement(template.root, stars, st, NewResult, depth))

\* respond(input_text), entered with depth - 1 respond calls already on the
\* stack.  returned: a result came back (FALSE for None and for a raise).
RespondCall(inputText, st, depth) ==
  IF depth > PyRecursionLimit
    THEN [st |-> Raise(st, "RecursionError"), returned |-> FALSE,
          result |-> NewResult, match |-> NoMatch]
    ELSE RespondMatched(inputText, st, depth,
                        MatchPattern(Normalize(inputText), st.that))

\* a respond that forgets the preceding response when nothing matches
RespondMatchedForgetsThat(inputText, st, depth, match) ==
  LET entered == [st EXCEPT !.calls =
                    Append(@, [input |-> inputText, that |-> st.that, match |-> match])]
  IN  IF ~match.matched
        THEN [st |-> [entered EXCEPT !.that = <<>>], returned |-> FALSE,
              result |-> NewResult, match |-> match]
        ELSE RespondEnd(inputText, match,
                        ProcessTemplate(categories[match.category].template,
                                        match.stars, entered, depth))

\* respond from "if not match.matched" on
RespondMatched(inputText, st, depth, match) ==
  LET entered == [st EXCEPT !.calls =
                    Append(@, [input |-> inputText, that |-> st.that, match |-> match])]
  IN  IF ~match.matched
        THEN [st |-> entered, returned |-> FALSE, result |-> NewResult, match |-> match]
        ELSE RespondEnd(inputText, match,
                        ProcessTemplate(categories[match.category].template,
                                        match.stars, entered, depth))

\* a respond that appends to history and leaves the preceding response alone
RespondEndKeepsThat(inputText, match, r) ==
  IF r.st.exc # NoExc
    THEN [st |-> r.st, returned |-> FALSE, result |-> r.res, match |-> match]
    ELSE [st |-> [r.st EXCEPT !.history = Append(@, <<inputText, r.res.text>>)],
          returned |-> TRUE, result |-> r.res, match |-> match]

\* a respond that keeps only the latest turn in the history
RespondEndForgets(inputText, match, r) ==
  IF r.st.exc # NoExc
    THEN [st |-> r.st, returned |-> FALSE, result |-> r.res, match |-> match]
    ELSE [st |-> [r.st EXCEPT !.that = Upper(r.res.text),
                              !.history = << <<inputText, r.res.text>> >>],
          returned |-> TRUE, result |-> r.res, match |-> match]

\* respond from "# Update history" on, r being what _process_template gave
RespondEnd(inputText, match, r) ==
  IF r.st.exc # NoExc
    THEN [st |-> r.st, returned |-> FALSE, result |-> r.res, match |-> match]
    ELSE [st |-> [r.st EXCEPT !.that = Upper(r.res.text),
                              !.history = Append(@, <<inputText, r.res.text>>)],
          returned |-> TRUE, result |-> r.res, match |-> match]

(***************************************************************************)
(* Operations of the engine.                                               *)
(***************************************************************************)
MaxTurns == 2

NoVariables == [n \in {} |-> <<>>]

InitLast ==
  [op |-> "init", input |-> <<>>, that0 |-> <<>>, outcome |-> "none", exc |-> NoExc,
   result |-> NewResult, match |-> NoMatch, calls |-> <<>>,
   variables0 |-> NoVariables, events |-> <<>>, name |-> <<>>, value |-> <<>>]

\* None in a field that otherwise holds a dict or an object
Absent == [none |-> TRUE]

\* no adventure loaded: AdventureEngine.adventures == {}
NoAdventures == [a \in {} |-> <<>>]

\* no call of AIMLActionsEngine or AdventureEngine made yet
NoReply == [op |-> "init"]

\* AIMLEngine.__init__, after load_patterns has filled the store; around it
\* a fresh AIMLActionsEngine and an AdventureEngine with nothing loaded
EngineInit(stores) ==
  /\ categories \in stores
  /\ variables = NoVariables
  /\ topic = AnyTopic
  /\ that = <<>>
  /\ history = <<>>
  /\ last = InitLast
  /\ pending_learn = Absent
  /\ adventures = NoAdventures
  /\ current_state = Absent
  /\ reply = NoReply

\* the session after a caller's respond call that went as call says
Commit(inputText, call) ==
  /\ variables' = call.st.variables
  /\ that' = call.st.that
  /\ history' = call.st.history
  /\ last' = [op |-> "respond", input |-> inputText, that0 |-> that,
              outcome |-> IF call.st.exc # NoExc THEN "raised"
                          ELSE IF call.returned THEN "result" ELSE "none",
              exc |-> call.st.exc,
              result |-> call.result,
              match |-> call.match,
              calls |-> call.st.calls,
              variables0 |-> variables,
              events |-> call.st.events,
              name |-> <<>>, value |-> <<>>]
  /\ UNCHANGED <<categories, topic>>

\* the session fields as a caller's respond call finds them
Entering(vs, sessionThat, sessionHistory, oracle) ==
  [variables |-> vs, that |-> sessionThat, history |-> sessionHistory,
   exc |-> NoExc, calls |-> <<>>, events |-> <<>>, oracle |-> oracle]

\* the draws random.choice can make in one respond call: none to make when
\* no template of the store holds a random tag
MaxDraws == 2

MaxItems == 2

RECURSIVE HasTag(_, _), AnyKidHasTag(_, _, _)
HasTag(el, tag) == TagLower(el.tag) = tag \/ AnyKidHasTag(el.kids, 1, tag)

AnyKidHasTag(kids, k, tag) ==
  k <= Len(kids) /\ (HasTag(kids[k], tag) \/ AnyKidHasTag(kids, k + 1, tag))

Oracles ==
  IF \E i \in DOMAIN categories :
       categories[i].template.wellformed /\ HasTag(categories[i].template.root, "random")
    THEN [1..MaxDraws -> 1..MaxItems]
    ELSE {<<>>}

\* a caller's respond(inputText): the whole call, nested respond calls of
\* srai tags included
Respond(inputText) ==
  /\ Len(history) < MaxTurns
  /\ \E oracle \in Oracles :
       Commit(inputText,
              RespondCall(inputText, Entering(variables, that, history, oracle), 1))
  /\ UNCHANGED outer

\* set_topic(newTopic)
SetTopic(newTopic) ==
  /\ topic' = Upper(newTopic)
  /\ last' = [InitLast EXCEPT !.op = "set_topic", !.input = newTopic, !.that0 = that,
                               !.variables0 = variables]
  /\ UNCHANGED <<categories, variables, that, history>>
  /\ UNCHANGED outer

\* set_variable(name, value)
SetVariable(name, value) ==
  /\ variables' = DictSet(variables, name, value)
  /\ last' = [InitLast EXCEPT !.op = "set_variable", !.name = name, !.value = value,
                               !.that0 = that, !.variables0 = variables]
  /\ UNCHANGED <<categories, topic, that, history>>
  /\ UNCHANGED outer

\* get_variable(name): last.value is what the call returns
GetVariable(name) ==
  /\ last' = [InitLast EXCEPT !.op = "get_variable", !.name = name,
                               !.value = DictGet(variables, name, <<>>),
                               !.that0 = that, !.variables0 = variables]
  /\ UNCHANGED <<categories, variables, topic, that, history>>
  /\ UNCHANGED outer

\* the template text add_category is given, with what ET.fromstring makes
\* of f"<template>{template}</template>": the root's text and children, or
\* ParseError
Body(xml, text, kids) == [xml |-> xml, wellformed |-> TRUE, text |-> text, kids |-> kids]

BadBody(xml) == [xml |-> xml, wellformed |-> FALSE, text |-> <<>>, kids |-> <<>>]

\* f"<template>{template}</template>"
Wrapped(body) ==
  IF body.wellformed THEN WellFormed(TemplateRoot(body.text, body.kids))
  ELSE Malformed(<<"<", "t", "e", "m", "p", "l", "a", "t", "e", ">">> \o body.xml
                   \o <<"<", "/", "t", "e", "m", "p", "l", "a", "t", "e", ">">>)

MaxStore == 3

\* an add_category that puts the new category in front of the store
AddCategoryInFront(pattern, body, newTopic) ==
  /\ Len(categories) < MaxStore
  /\ categories' = <<Category(Upper(pattern), Wrapped(body), None,
                              IF newTopic # AnyTopic THEN Upper(newTopic) ELSE AnyTopic)>>
                      \o categories
  /\ last' = [InitLast EXCEPT !.op = "add_category", !.input = pattern,
                               !.that0 = that, !.variables0 = variables]
  /\ UNCHANGED <<variables, topic, that, history>>
  /\ UNCHANGED outer

\* add_category(pattern, template, topic)
AddCategory(pattern, body, newTopic) ==
  /\ Len(categories) < MaxStore
  /\ categories' = Append(categories,
                          Category(Upper(pattern), Wrapped(body), None,
                                   IF newTopic # AnyTopic THEN Upper(newTopic) ELSE AnyTopic))
  /\ last' = [InitLast EXCEPT !.op = "add_category", !.input = pattern,
                               !.that0 = that, !.variables0 = variables]
  /\ UNCHANGED <<variables, topic, that, history>>
  /\ UNCHANGED outer

(***************************************************************************)
(* Templates, categories and inputs of the checked configurations.         *)
(***************************************************************************)
TextTemplate(text) == WellFormed(TemplateRoot(text, <<>>))

\* <template>Hi there!</template>
HiThere == TextTemplate(<<"H", "i", " ", "t", "h", "e", "r", "e", "!">>)

\* <template>ok <star/></template>
EchoStar == WellFormed(TemplateRoot(<<"o", "k", " ">>, <<Elem("star", NoAttrs, <<>>, <<>>, <<>>)>>))

\* <template><star index="2"/>,<star index="1"/></template>
EchoTwo ==
  WellFormed(TemplateRoot(<<>>,
    <<Elem("star", [index |-> <<"2">>], <<>>, <<>>, <<",">>),
      Elem("star", [index |-> <<"1">>], <<>>, <<>>, <<>>)>>))

\* a category as load_file stores it outside any topic element, with no that
Plain(pattern, template) == Category(pattern, template, None, AnyTopic)

\* pattern "HELLO"
CatHello == Plain(<<"H", "E", "L", "L", "O">>, HiThere)

\* pattern "A B"
CatAB == Plain(<<"A", " ", "B">>, TextTemplate(<<"a", "b">>))

\* pattern "A HELLO B"
CatAHelloB == Plain(<<"A", " ", "H", "E", "L", "L", "O", " ", "B">>, TextTemplate(<<"a", "h", "b">>))

\* pattern "HELLO #"
CatHelloHash == Plain(<<"H", "E", "L", "L", "O", " ", "#">>, EchoStar)

\* pattern "^ HELLO"
CatCaretHello == Plain(<<"^", " ", "H", "E", "L", "L", "O">>, EchoStar)

\* pattern "# HELLO"
CatHashHello == Plain(<<"#", " ", "H", "E", "L", "L", "O">>, EchoStar)

\* pattern "* HELLO"
CatStarHello == Plain(<<"*", " ", "H", "E", "L", "L", "O">>, EchoStar)

\* pattern "_ HELLO"
CatUnderHello == Plain(<<"_", " ", "H", "E", "L", "L", "O">>, EchoStar)

\* pattern "A # B"
CatAHashB == Plain(<<"A", " ", "#", " ", "B">>, EchoStar)

\* pattern "#"
CatHash == Plain(<<"#">>, EchoStar)

\* pattern "^"
CatCaret == Plain(<<"^">>, EchoStar)

\* pattern ""
CatEmpty == Plain(<<>>, TextTemplate(<<"e", "m", "p", "t", "y">>))

\* pattern "*"
CatStar == Plain(<<"*">>, EchoStar)

\* pattern "* HELLO #"
CatStarHelloHash == Plain(<<"*", " ", "H", "E", "L", "L", "O", " ", "#">>, EchoTwo)

\* pattern "HELLO" inside <topic name="DEPLOY">
CatHelloDeploy == Category(<<"H", "E", "L", "L", "O">>, TextTemplate(<<"d", "e", "p", "l", "o", "y", "i", "n", "g">>), None, <<"D", "E", "P", "L", "O", "Y">>)

MatchPool ==
  {CatHello, CatAB, CatAHelloB, CatHelloHash, CatCaretHello,
   CatHashHello, CatStarHello, CatUnderHello, CatAHashB, CatHash,
   CatCaret, CatEmpty, CatStar, CatStarHelloHash, CatHelloDeploy}

\* "hello"
InHello == <<"h", "e", "l", "l", "o">>

\* "Hello!"
InHelloBang == <<"H", "e", "l", "l", "o", "!">>

\* "a hello"
InAHello == <<"a", " ", "h", "e", "l", "l", "o">>

\* "hello a"
InHelloA == <<"h", "e", "l", "l", "o", " ", "a">>

\* "a hello b"
InAHelloB == <<"a", " ", "h", "e", "l", "l", "o", " ", "b">>

\* "a b"
InAB == <<"a", " ", "b">>

\* ""
InEmpty == <<>>

\* "!!"
InBangs == <<"!", "!">>

\* "hello b"
InHelloB == <<"h", "e", "l", "l", "o", " ", "b">>

\* "b a hello"
InBAHello == <<"b", " ", "a", " ", "h", "e", "l", "l", "o">>

MatchInputs ==
  {InHello, InHelloBang, InAHello, InHelloA, InAHelloB,
   InAB, InEmpty, InBangs, InHelloB, InBAHello}

MaxCats == 2

\* the stores of at most MaxCats categories drawn from pool, in every order
RECURSIVE StoresUpTo(_, _)
StoresUpTo(pool, n) ==
  IF n = 0 THEN {<<>>}
  ELSE LET shorter == StoresUpTo(pool, n - 1)
       IN  shorter \cup { Append(store, c) : store \in shorter, c \in pool }

(***************************************************************************)
(* MatchSpec: one respond call on a fresh engine, for every store over     *)
(* MatchPool and every input of MatchInputs.                               *)
(***************************************************************************)
MatchInit == EngineInit(StoresUpTo(MatchPool, MaxCats))

FirstRespond == last.op = "init" /\ \E inputText \in MatchInputs : Respond(inputText)

MatchNext == FirstRespond

MatchSpec == MatchInit /\ [][MatchNext]_vars

(***************************************************************************)
(* Vocabulary of the properties.                                           *)
(***************************************************************************)
\* the last call was respond; its normalized input; the store position of
\* the category it selected
Responded == last.op = "respond"

LastNorm == Normalize(last.input)

Winner == last.match.category

Tokens(category) == Split(category.pattern)

\* a category passes the topic filter and the preceding-response filter of
\* a session with topic t and preceding response th
Qualifies(category, t, th) ==
  /\ category.topic = AnyTopic \/ category.topic = t
  /\ category.that = None \/ category.that = <<>> \/ category.that = th

\* the matcher's alignment of a category's pattern with a normalized input
AlignsWith(category, norm) == PatternMatch(category.pattern, norm).ok

ScoreOf(category) == PatternScore(Tokens(category))

\* positions of the store that qualified and aligned in the last respond
Candidates ==
  { i \in DOMAIN categories :
      Qualifies(categories[i], topic, last.that0) /\ AlignsWith(categories[i], LastNorm) }

LiteralOnly(tokens) == \A k \in DOMAIN tokens : ~IsWildcardToken(tokens[k])

WildcardCount(tokens) == Cardinality({ k \in DOMAIN tokens : IsWildcardToken(tokens[k]) })

NoSideChannel(result) ==
  /\ result.action = "None"
  /\ result.workflow = None /\ result.inputs = None /\ result.choices = None
  /\ result.confirm = None /\ result.learn = None

(***************************************************************************)
(* C2: a pattern of literal tokens only matches an input exactly when the  *)
(* normalized input equals the pattern word for word, case-insensitively   *)
(* (one word more or one word less, wherever, does not match); a store     *)
(* holding just such a category answers exactly those inputs; and pattern  *)
(* HELLO with the plain-text template "Hi there!" answers "hello" with     *)
(* that text and no action.                                                *)
(***************************************************************************)
C2_LiteralMatchIsWordEquality ==
  Responded =>
    /\ \A i \in DOMAIN categories :
         LiteralOnly(Tokens(categories[i])) =>
           ( AlignsWith(categories[i], LastNorm)
               <=> Split(LastNorm) = Split(Upper(categories[i].pattern)) )
    /\ ( Len(categories) = 1 /\ LiteralOnly(Tokens(categories[1]))
         /\ Qualifies(categories[1], topic, last.that0) ) =>
           ( last.outcome = "result"
               <=> Split(LastNorm) = Split(Upper(categories[1].pattern)) )
    /\ ( last.match.matched /\ categories[Winner] = CatHello /\ last.input = InHello ) =>
           /\ last.outcome = "result"
           /\ last.result.text = <<"H", "i", " ", "t", "h", "e", "r", "e", "!">>
           /\ NoSideChannel(last.result)

\* "Hello!" is answered by HELLO and not by A HELLO B, which lacks two words
C2_Witness ==
  /\ Responded
  /\ categories = <<CatAHelloB, CatHello>>
  /\ last.input = InHelloBang
  /\ Winner = 2
  /\ last.result.text = <<"H", "i", " ", "t", "h", "e", "r", "e", "!">>

(***************************************************************************)
(* C3: the matcher returns, among the categories that qualify and whose    *)
(* patterns align with the input, the one of highest score, and among      *)
(* those of highest score the first in store order; it returns no match    *)
(* exactly when there is none.                                             *)
(***************************************************************************)
C3_HighestScoreFirstInOrder ==
  Responded =>
    /\ last.match.matched <=> Candidates # {}
    /\ last.match.matched =>
         /\ Winner \in Candidates
         /\ \A j \in Candidates :
              /\ ScoreOf(categories[j]) <= ScoreOf(categories[Winner])
              /\ ScoreOf(categories[j]) = ScoreOf(categories[Winner]) => Winner <= j
         /\ last.match.stars = PatternMatch(categories[Winner].pattern, LastNorm).stars

\* two different aligned categories share the highest score; the first wins
C3_Witness ==
  /\ Responded
  /\ last.match.matched
  /\ \E j \in Candidates :
       /\ j > Winner
       /\ categories[j] # categories[Winner]
       /\ ScoreOf(categories[j]) = ScoreOf(categories[Winner])

(***************************************************************************)
(* C4: of two qualifying categories whose patterns differ in one position  *)
(* only, by a high-priority wildcard (_ or ^) against the low-priority     *)
(* wildcard of the same greediness, * or #, an input that matches both     *)
(* never selects the low-priority one, whichever comes first, and selects  *)
(* the high-priority one unless some third category scores at least as     *)
(* much.                                                                   *)
(***************************************************************************)
HighOverLow(high, low) ==
  \/ high = <<"_">> /\ low = <<"*">>
  \/ high = <<"^">> /\ low = <<"#">>

\* pattern tokens hi and lo are identical but for one position, where hi
\* has the high-priority and lo the low-priority wildcard
PriorityPair(hi, lo) ==
  /\ Len(hi) = Len(lo)
  /\ \E p \in DOMAIN hi :
       /\ HighOverLow(hi[p], lo[p])
       /\ \A k \in DOMAIN hi : k # p => hi[k] = lo[k]

C4_HighPriorityWildcardWins ==
  Responded =>
    \A i \in Candidates : \A j \in Candidates :
      PriorityPair(Tokens(categories[i]), Tokens(categories[j])) =>
        /\ last.match.matched
        /\ categories[Winner] # categories[j]
        /\ ( \A k \in Candidates :
               categories[k] \notin {categories[i], categories[j]}
                 => ScoreOf(categories[k]) < ScoreOf(categories[i]) )
             => categories[Winner] = categories[i]

\* the low-priority category comes first in the store and still loses
C4_Witness ==
  /\ Responded
  /\ \E i \in Candidates : \E j \in Candidates :
       /\ PriorityPair(Tokens(categories[i]), Tokens(categories[j]))
       /\ j < i
       /\ Winner = i

(***************************************************************************)
(* C6: in a match result with matched = true the number of captured spans  *)
(* is the number of wildcard tokens of the winning pattern, and the i-th   *)
(* span stands where the i-th wildcard token stands: putting each span in  *)
(* the place of its wildcard gives the normalized input back.              *)
(***************************************************************************)
\* the pattern tokens from token k on, each wildcard replaced by the next
\* of the spans, from span n on
RECURSIVE Substituted(_, _, _, _)
Substituted(tokens, k, spans, n) ==
  IF k > Len(tokens) THEN <<>>
  ELSE IF IsWildcardToken(tokens[k])
    THEN <<spans[n]>> \o Substituted(tokens, k + 1, spans, n + 1)
    ELSE <<Upper(tokens[k])>> \o Substituted(tokens, k + 1, spans, n)

C6_OneSpanPerWildcardInOrder ==
  (Responded /\ last.match.matched) =>
    LET tokens == Tokens(categories[Winner])
    IN  /\ Len(last.match.stars) = WildcardCount(tokens)
        /\ JoinSpace(Substituted(tokens, 1, last.match.stars, 1)) = LastNorm

\* a winning pattern with two wildcards whose spans differ
C6_Witness ==
  /\ Responded
  /\ last.match.matched
  /\ WildcardCount(Tokens(categories[Winner])) = 2
  /\ Len(last.match.stars) = 2
  /\ last.match.stars[1] # last.match.stars[2]

(***************************************************************************)
(* C7: for a pattern of literal tokens and one narrow wildcard (# or ^),   *)
(* wherever the wildcard stands, the input made of exactly the literal     *)
(* words matches, with an empty span for the wildcard; with a broad        *)
(* wildcard, * or _, in that place it does not match.                      *)
(***************************************************************************)
Literals(tokens) == SelectSeq(tokens, LAMBDA t : ~IsWildcardToken(t))

OneWildcardAmongLiterals(tokens) ==
  WildcardCount(tokens) = 1 /\ Len(tokens) >= 2

UpperAll(words) == [k \in DOMAIN words |-> Upper(words[k])]

C7_NarrowWildcardMatchesZeroWords ==
  Responded =>
    \A i \in DOMAIN categories :
      LET tokens == Tokens(categories[i])
          m      == PatternMatch(categories[i].pattern, LastNorm)
      IN  ( OneWildcardAmongLiterals(tokens)
            /\ Split(LastNorm) = UpperAll(Literals(tokens)) ) =>
            IF \E k \in DOMAIN tokens : IsNarrowToken(tokens[k])
              THEN m.ok /\ m.stars = << <<>> >>
              ELSE ~m.ok

(***************************************************************************)
(* C8: an input that normalizes to the empty string matches no category,   *)
(* whatever the store holds.                                               *)
(***************************************************************************)
C8_EmptyInputMatchesNothing ==
  (Responded /\ LastNorm = <<>>) => last.outcome = "none"

(***************************************************************************)
(* C8 as amended: an input that normalizes to the empty string never       *)
(* selects a category whose pattern holds a literal token or a broad       *)
(* wildcard, and is matched whenever a qualifying category's pattern is a  *)
(* single narrow wildcard or has no token at all.                          *)
(***************************************************************************)
C8_EmptyInputMatchesOnlyNarrow ==
  (Responded /\ LastNorm = <<>>) =>
    /\ last.match.matched =>
         \A k \in DOMAIN Tokens(categories[Winner]) :
           IsNarrowToken(Tokens(categories[Winner])[k])
    /\ ( \E i \in DOMAIN categories :
           /\ Qualifies(categories[i], topic, last.that0)
           /\ Tokens(categories[i]) \in {<<>>, << <<"#">> >>, << <<"^">> >>} )
         => last.match.matched

\* a punctuation-only input is answered by the category with pattern #
C8_Witness ==
  /\ Responded
  /\ last.input = InBangs
  /\ last.match.matched
  /\ Tokens(categories[Winner]) = << <<"#">> >>
  /\ last.outcome = "result"

(***************************************************************************)
(* Spec: a session of respond and set_topic calls, for every store over    *)
(* SessionPool.                                                            *)
(***************************************************************************)
\* pattern "HELLO" with <that>HI THERE!</that>
CatHelloAfterHi == Category(<<"H", "E", "L", "L", "O">>, TextTemplate(<<"a", "g", "a", "i", "n">>), <<"H", "I", " ", "T", "H", "E", "R", "E", "!">>, AnyTopic)

\* pattern "LOOP", <template><srai>LOOP</srai></template>
CatLoop ==
  Plain(<<"L", "O", "O", "P">>, WellFormed(TemplateRoot(<<>>,
          <<Elem("srai", NoAttrs, <<"L", "O", "O", "P">>, <<>>, <<>>)>>)))

\* pattern "BAD", <template>no <star index="x"/></template>
CatBad ==
  Plain(<<"B", "A", "D">>, WellFormed(TemplateRoot(<<"n", "o", " ">>,
          <<Elem("star", [index |-> <<"x">>], <<>>, <<>>, <<>>)>>)))

\* pattern "HI", <template>say <srai>hello</srai></template>
CatHi ==
  Plain(<<"H", "I">>, WellFormed(TemplateRoot(<<"s", "a", "y", " ">>,
          <<Elem("srai", NoAttrs, <<"h", "e", "l", "l", "o">>, <<>>, <<>>)>>)))

SessionPool ==
  {CatHello, CatHelloAfterHi, CatHelloDeploy, CatStar, CatLoop, CatBad, CatHi}

\* "loop"
InLoop == <<"l", "o", "o", "p">>

\* "bad"
InBad == <<"b", "a", "d">>

\* "hi"
InHi == <<"h", "i">>

SessionInputs == {InHello, InLoop, InBad, InHi}

\* "deploy"
TopicDeploy == <<"d", "e", "p", "l", "o", "y">>

SessionTopics == {TopicDeploy, AnyTopic}

Init == EngineInit(StoresUpTo(SessionPool, MaxCats))

Next ==
  \/ \E inputText \in SessionInputs : Respond(inputText)
  \/ \E newTopic \in SessionTopics : SetTopic(newTopic)

Spec == Init /\ [][Next]_vars

(***************************************************************************)
(* Word-level alignment as the pattern language defines it: a literal      *)
(* token stands for one equal word, a broad wildcard, * or _, for one or   *)
(* more words, a narrow wildcard, # or ^, for any number of words.         *)
(***************************************************************************)
RECURSIVE WordsAlign(_, _, _, _)
WordsAlign(tokens, k, words, w) ==
  IF k > Len(tokens) THEN w > Len(words)
  ELSE IF IsWildcardToken(tokens[k])
    THEN \E n \in (IF IsBroadToken(tokens[k]) THEN 1 ELSE 0)..(Len(words) - w + 1) :
           WordsAlign(tokens, k + 1, words, w + n)
    ELSE /\ w <= Len(words)
         /\ Upper(tokens[k]) = words[w]
         /\ WordsAlign(tokens, k + 1, words, w + 1)

\* a category qualifies for an input in a session: it passes both filters
\* and its pattern aligns with the whole normalized input
QualifiesFor(category, norm, t, th) ==
  /\ Qualifies(category, t, th)
  /\ WordsAlign(Tokens(category), 1, Split(norm), 1)

(***************************************************************************)
(* C1: a respond call whose normalized input has no qualifying category    *)
(* (none that passes the topic and preceding-response filters and aligns   *)
(* with the whole input) returns None, raises nothing and leaves the       *)
(* session as it was.                                                      *)
(***************************************************************************)
C1_NoQualifyingCategoryIsNoMatch ==
  ( Responded
    /\ \A i \in DOMAIN categories :
         ~QualifiesFor(categories[i], LastNorm, topic, last.that0) ) =>
    /\ last.outcome = "none"
    /\ last.exc = NoExc
    /\ ~last.match.matched
    /\ that = last.that0

\* no match although the store holds a category that aligns with the input:
\* the session's topic or preceding response filters it out
C1_Witness ==
  /\ Responded
  /\ last.outcome = "none"
  /\ \A i \in DOMAIN categories :
       ~QualifiesFor(categories[i], LastNorm, topic, last.that0)
  /\ \E i \in DOMAIN categories :
       WordsAlign(Tokens(categories[i]), 1, Split(LastNorm), 1)

(***************************************************************************)
(* C5: the matcher never selects a category whose topic is set (not "*")   *)
(* and differs from the session topic, or whose preceding-response filter  *)
(* is set and differs from the session's last response, in the respond     *)
(* call or in any respond call its template makes, even when that          *)
(* category aligns with the input and scores higher than the one selected. *)
(***************************************************************************)
C5_FilteredCategoryNeverSelected ==
  Responded =>
    \A n \in DOMAIN last.calls :
      LET call == last.calls[n]
      IN  call.match.matched =>
            LET category == categories[call.match.category]
            IN  /\ category.topic \in {AnyTopic, topic}
                /\ category.that \in {None, <<>>, call.that}

\* a filtered-out category aligns with the input and outscores the winner
C5_Witness ==
  /\ Responded
  /\ last.match.matched
  /\ \E j \in DOMAIN categories :
       /\ ~Qualifies(categories[j], topic, last.that0)
       /\ WordsAlign(Tokens(categories[j]), 1, Split(LastNorm), 1)
       /\ ScoreOf(categories[j]) > ScoreOf(categories[Winner])

(***************************************************************************)
(* C9: a respond call that selects a category whose template re-submits    *)
(* the category's own trigger text through srai terminates normally: it    *)
(* returns a result and raises nothing.                                    *)
(***************************************************************************)
\* the template holds an srai element whose text is the category's pattern
ResubmitsOwnTrigger(category) ==
  /\ category.template.wellformed
  /\ LiteralOnly(Tokens(category))
  /\ \E k \in DOMAIN category.template.root.kids :
       LET kid == category.template.root.kids[k]
       IN  /\ TagLower(kid.tag) = "srai"
           /\ kid.kids = <<>>
           /\ Normalize(kid.text) = Normalize(category.pattern)

C9_SelfRecursionReturnsNormally ==
  ( Responded /\ last.match.matched /\ ResubmitsOwnTrigger(categories[Winner]) ) =>
    /\ last.outcome = "result"
    /\ last.exc = NoExc

(***************************************************************************)
(* C10: no respond call raises an exception, whatever the winning template *)
(* contains.  Stated for the respond calls whose template makes no         *)
(* recursive respond call, which leaves the unbounded recursion of C9      *)
(* aside: a failure while evaluating a tag degrades to text output.        *)
(***************************************************************************)
C10_TagFailureNeverEscapes ==
  ( Responded /\ Len(last.calls) = 1 ) =>
    /\ last.outcome \in {"result", "none"}
    /\ last.exc = NoExc

(***************************************************************************)
(* EvalSpec: one respond call on a fresh engine, for every store over      *)
(* EvalPool, whose templates use the tags that write to the result.        *)
(***************************************************************************)
\* pattern "CREATE * USERS", <template><action workflow="create-users" inputs='{"count": "&lt;star index=&quot;1&quot;/&gt;"}'>Creating <star/> users</action></template>
CatCreateUsers ==
  Category(<<"C", "R", "E", "A", "T", "E", " ", "*", " ", "U", "S", "E", "R", "S">>,
    WellFormed(TemplateRoot(<<>>,
    <<Elem("action", [workflow |-> <<"c", "r", "e", "a", "t", "e", "-", "u", "s", "e", "r", "s">>, inputs |-> <<"{", "\"", "c", "o", "u", "n", "t", "\"", ":", " ", "\"", "<", "s", "t", "a", "r", " ", "i", "n", "d", "e", "x", "=", "\"", "1", "\"", "/", ">", "\"", "}">>], <<"C", "r", "e", "a", "t", "i", "n", "g", " ">>,
      <<Elem("star", NoAttrs, <<>>,
        <<>>,
        <<" ", "u", "s", "e", "r", "s">>)>>,
      <<>>)>>)),
    None, AnyTopic)

\* pattern "DEPLOY", <template><think><confirm>a</confirm></think><action workflow="w"/>done</template>
CatDeploy ==
  Category(<<"D", "E", "P", "L", "O", "Y">>,
    WellFormed(TemplateRoot(<<>>,
    <<Elem("think", NoAttrs, <<>>,
      <<Elem("confirm", NoAttrs, <<"a">>,
        <<>>,
        <<>>)>>,
      <<>>),
    Elem("action", [workflow |-> <<"w">>], <<>>,
      <<>>,
      <<"d", "o", "n", "e">>)>>)),
    None, AnyTopic)

\* pattern "ASK", <template><llm>q</llm></template>
CatAsk ==
  Category(<<"A", "S", "K">>,
    WellFormed(TemplateRoot(<<>>,
    <<Elem("llm", NoAttrs, <<"q">>,
      <<>>,
      <<>>)>>)),
    None, AnyTopic)

\* pattern "RELAY *", <template>[<srai><star/></srai>]</template>
CatRelay ==
  Category(<<"R", "E", "L", "A", "Y", " ", "*">>,
    WellFormed(TemplateRoot(<<"[">>,
    <<Elem("srai", NoAttrs, <<>>,
      <<Elem("star", NoAttrs, <<>>,
        <<>>,
        <<>>)>>,
      <<"]">>)>>)),
    None, AnyTopic)

\* pattern "TWICE", <template><confirm>one<llm/></confirm><confirm>two</confirm></template>
CatTwice ==
  Category(<<"T", "W", "I", "C", "E">>,
    WellFormed(TemplateRoot(<<>>,
    <<Elem("confirm", NoAttrs, <<"o", "n", "e">>,
      <<Elem("llm", NoAttrs, <<>>,
        <<>>,
        <<>>)>>,
      <<>>),
    Elem("confirm", NoAttrs, <<"t", "w", "o">>,
      <<>>,
      <<>>)>>)),
    None, AnyTopic)

\* pattern "TEACH *", <template><learn-action pattern="DO &lt;star index=&quot;1&quot;/&gt;" workflow="wf"/>ok</template>
CatTeach ==
  Category(<<"T", "E", "A", "C", "H", " ", "*">>,
    WellFormed(TemplateRoot(<<>>,
    <<Elem("learn-action", [pattern |-> <<"D", "O", " ", "<", "s", "t", "a", "r", " ", "i", "n", "d", "e", "x", "=", "\"", "1", "\"", "/", ">">>, workflow |-> <<"w", "f">>], <<>>,
      <<>>,
      <<"o", "k">>)>>)),
    None, AnyTopic)

\* pattern "MENU", <template><choice>a|b</choice></template>
CatMenu ==
  Category(<<"M", "E", "N", "U">>,
    WellFormed(TemplateRoot(<<>>,
    <<Elem("choice", NoAttrs, <<"a", "|", "b">>,
      <<>>,
      <<>>)>>)),
    None, AnyTopic)

\* pattern "FLIP", <template><random><li>heads</li><li>tails<confirm>t</confirm></li></random></template>
CatFlip ==
  Category(<<"F", "L", "I", "P">>,
    WellFormed(TemplateRoot(<<>>,
    <<Elem("random", NoAttrs, <<>>,
      <<Elem("li", NoAttrs, <<"h", "e", "a", "d", "s">>,
        <<>>,
        <<>>),
      Elem("li", NoAttrs, <<"t", "a", "i", "l", "s">>,
        <<Elem("confirm", NoAttrs, <<"t">>,
          <<>>,
          <<>>)>>,
        <<>>)>>,
      <<>>)>>)),
    None, AnyTopic)

\* pattern "* OR *", <template><star index="2"/>,<star/></template>
CatOr ==
  Category(<<"*", " ", "O", "R", " ", "*">>,
    WellFormed(TemplateRoot(<<>>,
    <<Elem("star", [index |-> <<"2">>], <<>>,
      <<>>,
      <<",">>),
    Elem("star", NoAttrs, <<>>,
      <<>>,
      <<>>)>>)),
    None, AnyTopic)

\* pattern "COPY * TO *", <template><action workflow="copy" inputs='{"a": "&lt;star index=&quot;2&quot;/&gt;", "b": "&lt;star/&gt;"}'/></template>
CatCopy ==
  Category(<<"C", "O", "P", "Y", " ", "*", " ", "T", "O", " ", "*">>,
    WellFormed(TemplateRoot(<<>>,
    <<Elem("action", [workflow |-> <<"c", "o", "p", "y">>, inputs |-> <<"{", "\"", "a", "\"", ":", " ", "\"", "<", "s", "t", "a", "r", " ", "i", "n", "d", "e", "x", "=", "\"", "2", "\"", "/", ">", "\"", ",", " ", "\"", "b", "\"", ":", " ", "\"", "<", "s", "t", "a", "r", "/", ">", "\"", "}">>], <<>>,
      <<>>,
      <<>>)>>)),
    None, AnyTopic)

EvalPool ==
  {CatCreateUsers, CatDeploy, CatAsk, CatRelay, CatTwice, CatTeach, CatMenu, CatFlip, CatOr,
   CatCopy}

\* "create 10 users"
InCreate == <<"c", "r", "e", "a", "t", "e", " ", "1", "0", " ", "u", "s", "e", "r", "s">>

\* "deploy"
InDeploy == <<"d", "e", "p", "l", "o", "y">>

\* "ask"
InAsk == <<"a", "s", "k">>

\* "relay deploy"
InRelayDeploy == <<"r", "e", "l", "a", "y", " ", "d", "e", "p", "l", "o", "y">>

\* "relay nothing"
InRelayNone == <<"r", "e", "l", "a", "y", " ", "n", "o", "t", "h", "i", "n", "g">>

\* "relay create 5 users"
InRelayCreate == <<"r", "e", "l", "a", "y", " ", "c", "r", "e", "a", "t", "e", " ", "5", " ", "u", "s", "e", "r", "s">>

\* "twice"
InTwice == <<"t", "w", "i", "c", "e">>

\* "teach me"
InTeach == <<"t", "e", "a", "c", "h", " ", "m", "e">>

\* "menu"
InMenu == <<"m", "e", "n", "u">>

\* "flip"
InFlip == <<"f", "l", "i", "p">>

\* "cat or dog"
InCatOrDog == <<"c", "a", "t", " ", "o", "r", " ", "d", "o", "g">>

\* "create a b users"
InCreateTwoWords == <<"c", "r", "e", "a", "t", "e", " ", "a", " ", "b", " ", "u", "s", "e", "r", "s">>

\* "copy x to y z"
InCopy == <<"c", "o", "p", "y", " ", "x", " ", "t", "o", " ", "y", " ", "z">>

EvalInputs ==
  {InCreate, InDeploy, InAsk, InRelayDeploy, InRelayNone, InRelayCreate, InTwice, InTeach, InMenu,
   InFlip, InCatOrDog, InCreateTwoWords, InCopy}

EvalInit == EngineInit(StoresUpTo(EvalPool, MaxCats))

EvalRespond == last.op = "init" /\ \E inputText \in EvalInputs : Respond(inputText)

EvalNext == EvalRespond

EvalSpec == EvalInit /\ [][EvalNext]_vars

(***************************************************************************)
(* EngineSpec: a session of all five operations of one engine, for every   *)
(* store over EnginePool, whose templates read and assign variables.       *)
(***************************************************************************)
\* pattern "REMEMBER *", <template><think><set name="v"><star/></set></think>ok <get name="v"/></template>
CatRemember ==
  Category(<<"R", "E", "M", "E", "M", "B", "E", "R", " ", "*">>,
    WellFormed(TemplateRoot(<<>>,
    <<Elem("think", NoAttrs, <<>>,
      <<Elem("set", [name |-> <<"v">>], <<>>,
        <<Elem("star", NoAttrs, <<>>,
          <<>>,
          <<>>)>>,
        <<>>)>>,
      <<"o", "k", " ">>),
    Elem("get", [name |-> <<"v">>], <<>>,
      <<>>,
      <<>>)>>)),
    None, AnyTopic)

\* pattern "RECALL", <template>v=<get name="v"/>;u=<get name="u"/></template>
CatRecall ==
  Category(<<"R", "E", "C", "A", "L", "L">>,
    WellFormed(TemplateRoot(<<"v", "=">>,
    <<Elem("get", [name |-> <<"v">>], <<>>,
      <<>>,
      <<";", "u", "=">>),
    Elem("get", [name |-> <<"u">>], <<>>,
      <<>>,
      <<>>)>>)),
    None, AnyTopic)

\* pattern "NOTE", <template><set name="w">n</set><srai>recall</srai></template>
CatNote ==
  Category(<<"N", "O", "T", "E">>,
    WellFormed(TemplateRoot(<<>>,
    <<Elem("set", [name |-> <<"w">>], <<"n">>,
      <<>>,
      <<>>),
    Elem("srai", NoAttrs, <<"r", "e", "c", "a", "l", "l">>,
      <<>>,
      <<>>)>>)),
    None, AnyTopic)

EnginePool ==
  {CatRemember, CatRecall, CatNote}

\* "remember a"
InRemember == <<"r", "e", "m", "e", "m", "b", "e", "r", " ", "a">>

\* "recall"
InRecall == <<"r", "e", "c", "a", "l", "l">>

\* "note"
InNote == <<"n", "o", "t", "e">>

\* "broken"
InBroken == <<"b", "r", "o", "k", "e", "n">>

EngineInputs ==
  {InRemember, InRecall, InNote, InBroken}

\* "v"
NameV == <<"v">>

\* "u"
NameU == <<"u">>

\* "b"
ValueB == <<"b">>

\* add_category template "<set name="v">x</set><b>": the b tag is never closed
BodyBroken == BadBody(<<"<", "s", "e", "t", " ", "n", "a", "m", "e", "=", "\"", "v", "\"", ">", "x", "<", "/", "s", "e", "t", ">", "<", "b", ">">>)

\* add_category template "late <get name="v"/>"
BodyLate == Body(<<"l", "a", "t", "e", " ", "<", "g", "e", "t", " ", "n", "a", "m", "e", "=", "\"", "v", "\"", "/", ">">>, <<"l", "a", "t", "e", " ">>, <<Elem("get", [name |-> <<"v">>], <<>>,
      <<>>,
      <<>>)>>)

\* the arguments of the add_category calls
NewCategories ==
  { [pattern |-> InBroken, body |-> BodyBroken, topic |-> AnyTopic],
    [pattern |-> InRecall, body |-> BodyLate, topic |-> TopicDeploy] }

EngineStart == EngineInit(StoresUpTo(EnginePool, MaxCats))

EngineNext ==
  \/ \E inputText \in EngineInputs : Respond(inputText)
  \/ \E newTopic \in SessionTopics : SetTopic(newTopic)
  \/ SetVariable(NameV, ValueB)
  \/ \E name \in {NameV, NameU} : GetVariable(name)
  \/ \E c \in NewCategories : AddCategory(c.pattern, c.body, c.topic)

EngineSpec == EngineStart /\ [][EngineNext]_vars

(***************************************************************************)
(* Properties of the whole engine (EngineSpec).                            *)
(***************************************************************************)
\* the last call was a respond that selected a category
Selected == Responded /\ last.match.matched

(***************************************************************************)
(* C11: when the selected category's template is not a well-formed tag     *)
(* tree, respond returns a result whose text is the whole template string  *)
(* as stored, with no action and no other side-channel field set, and      *)
(* nothing of the template is evaluated: no variable is read or assigned,  *)
(* no field of the result is written, and the session variables are what   *)
(* they were before the call.                                              *)
(***************************************************************************)
C11_MalformedTemplateIsLiteralText ==
  (Selected /\ ~categories[Winner].template.wellformed) =>
    /\ last.outcome = "result"
    /\ last.result.text = categories[Winner].template.xml
    /\ NoSideChannel(last.result)
    /\ last.events = <<>>
    /\ variables = last.variables0

\* a respond selected the malformed category in a session that holds a
\* variable, and the template text names a set tag
C11_Witness ==
  /\ Selected /\ ~categories[Winner].template.wellformed
  /\ last.variables0 # NoVariables
  /\ \E p \in 1..Len(categories[Winner].template.xml) :
       OccursAt(<<"<", "s", "e", "t">>, categories[Winner].template.xml, p)

(***************************************************************************)
(* C12: after every respond call that returns a result, the session's      *)
(* preceding response is the upper-cased text of that result and the last  *)
(* history entry is the pair of the input as it was passed and the         *)
(* result's text, also when the template made nested respond calls through *)
(* srai tags.                                                              *)
(***************************************************************************)
C12_ContextFollowsReturnedResult ==
  (Responded /\ last.outcome = "result") =>
    /\ that = Upper(last.result.text)
    /\ Len(history) >= 1
    /\ history[Len(history)] = <<last.input, last.result.text>>

\* the template made a nested respond call that returned another text, and
\* that call's entry is in the history just before the caller's
C12_Witness ==
  /\ Responded /\ last.outcome = "result"
  /\ Len(last.calls) >= 2
  /\ Len(history) >= 2
  /\ history[Len(history) - 1][2] # last.result.text
  /\ history[Len(history) - 1][1] # last.input

(***************************************************************************)
(* C13: history is append-only.  Whatever the call (respond, set_topic,    *)
(* set_variable, get_variable or add_category), the history before it is a *)
(* prefix of the history after it: no entry is removed, reordered or       *)
(* rewritten.                                                              *)
(***************************************************************************)
IsPrefix(s, t) == Len(s) <= Len(t) /\ SubSeq(t, 1, Len(s)) = s

C13_HistoryIsAppendOnly == [][IsPrefix(history, history')]_vars

\* a respond on a session that already had history appended two entries,
\* its nested call's and its own
C13_Witness ==
  /\ Responded /\ last.outcome = "result"
  /\ Len(last.calls) >= 2
  /\ Len(history) >= 3

(***************************************************************************)
(* C14: a value assigned to a session variable, by a set tag or by         *)
(* set_variable, is what a get tag and get_variable give for that name at  *)
(* every later point, in the same evaluation and in later turns, until the *)
(* name is assigned again; nothing else changes it (a turn that assigns    *)
(* other names, a turn with no match, set_topic, add_category); and a name *)
(* never assigned reads as the empty string.                               *)
(*                                                                         *)
(* Stated step by step: the reads and assignments of a respond call, taken *)
(* in the order they happened and starting from the variables the call     *)
(* found, each read gives the latest value assigned to its name (the empty *)
(* string when there is none), and the variables the call leaves are       *)
(* exactly the latest assignments; set_variable changes its name only;     *)
(* get_variable gives the value held; the other calls change nothing.      *)
(***************************************************************************)
\* assignments as a function from the assigned names to their latest value
Assigned(held, name, value) ==
  [n \in DOMAIN held \cup {name} |-> IF n = name THEN value ELSE held[n]]

ReadOf(held, name) == IF name \in DOMAIN held THEN held[name] ELSE <<>>

\* the events from k on agree with held, and what is held after them
RECURSIVE Replayed(_, _, _)
Replayed(events, k, held) ==
  IF k > Len(events) THEN [ok |-> TRUE, held |-> held]
  ELSE IF events[k].kind = "set"
    THEN Replayed(events, k + 1, Assigned(held, events[k].name, events[k].value))
  ELSE IF events[k].kind = "get" /\ events[k].value # ReadOf(held, events[k].name)
    THEN [ok |-> FALSE, held |-> held]
  ELSE Replayed(events, k + 1, held)

VariablesFollow(before, call, after) ==
  CASE call.op = "respond" ->
         LET r == Replayed(call.events, 1, before)
         IN  r.ok /\ after = r.held
    [] call.op = "set_variable" -> after = Assigned(before, call.name, call.value)
    [] call.op = "get_variable" -> call.value = ReadOf(before, call.name) /\ after = before
    [] OTHER -> after = before

C14_VariablesPersistUntilReassigned ==
  [][VariablesFollow(variables, last', variables')]_vars

\* a respond found v holding a value, assigned it another and read that one
\* back in the same evaluation
C14_Witness ==
  /\ Responded
  /\ NameV \in DOMAIN last.variables0
  /\ \E i, j \in DOMAIN last.events :
       /\ i < j
       /\ last.events[i].kind = "set" /\ last.events[i].name = NameV
       /\ last.events[j].kind = "get" /\ last.events[j].name = NameV
       /\ last.events[j].value = last.events[i].value
       /\ last.events[i].value # last.variables0[NameV]

(***************************************************************************)
(* Properties of one evaluation (EvalSpec).                                *)
(***************************************************************************)
\* the side-channel fields of a result
SideFields == {"action", "workflow", "inputs", "choices", "confirm", "learn"}

\* the positions of the trace where the respond call at depth d wrote field
WritesOf(field, d) ==
  { k \in DOMAIN last.events :
      /\ last.events[k].kind = "write"
      /\ last.events[k].field = field
      /\ last.events[k].depth = d }

\* the nested respond call of the selected template matched
SubCallMatched == Len(last.calls) >= 2 /\ last.calls[2].match.matched

\* the selected template is the one of pattern RELAY *: "[", an srai of the
\* capture, "]"
RelaySelected == Selected /\ categories[Winner] = CatRelay

(***************************************************************************)
(* C15: an srai tag contributes text only.  The text of the nested respond *)
(* call's result is appended when that call matches and nothing when it    *)
(* does not; and what the nested call's template wrote to its own result   *)
(* (action, workflow and inputs, choices, confirm, learn) is not on the    *)
(* result of the outer respond: a field the outer template did not write   *)
(* itself is unset.                                                        *)
(***************************************************************************)
C15_SraiContributesTextOnly ==
  (Responded /\ last.outcome = "result") =>
    /\ \A field \in SideFields :
         WritesOf(field, 1) = {} => last.result[field] = NewResult[field]
    /\ RelaySelected =>
         /\ Len(last.calls) = 2
         /\ last.result.text =
              <<"[">> \o (IF SubCallMatched THEN history[1][2] ELSE <<>>) \o <<"]">>
         /\ ~SubCallMatched => Len(history) = 1

\* the nested call matched, returned a text and wrote side-channel fields
\* on its own result
C15_Witness ==
  /\ RelaySelected /\ SubCallMatched
  /\ last.outcome = "result"
  /\ history[1][2] # <<>>
  /\ \E field \in {"action", "workflow", "confirm"} : WritesOf(field, 2) # {}

(***************************************************************************)
(* C16: within one template evaluation every tag writes to the same result *)
(* object, and when several tags write the same side-channel field the     *)
(* returned result holds the value written last in the depth-first,        *)
(* left-to-right walk, the writes made inside a think tag included.        *)
(***************************************************************************)
\* the latest position of a non-empty set of positions
Latest(positions) == CHOOSE p \in positions : \A q \in positions : q <= p

C16_LastWriteWins ==
  (Responded /\ last.outcome = "result") =>
    \A field \in SideFields :
      WritesOf(field, 1) # {} =>
        last.result[field] = last.events[Latest(WritesOf(field, 1))].value

\* the template of pattern DEPLOY, a confirm inside a think followed by an
\* action: the action kind was written twice with different values, and the
\* confirm prompt written inside the think is on the result
C16_Witness ==
  /\ Selected /\ categories[Winner] = CatDeploy
  /\ last.outcome = "result"
  /\ \E i, j \in WritesOf("action", 1) :
       i < j /\ last.events[i].value # last.events[j].value
  /\ WritesOf("confirm", 1) # {}
  /\ last.result.confirm # None

(***************************************************************************)
(* C17: every result respond returns has an action that is one of none,    *)
(* workflow, confirm or learn; no other action value is produced.          *)
(***************************************************************************)
C17_ActionIsOneOfFour ==
  (Responded /\ last.outcome = "result") =>
    last.result.action \in {"None", "workflow", "confirm", "learn"}

(***************************************************************************)
(* C18: for pattern CREATE * USERS with an action tag whose inputs refer   *)
(* to capture 1, respond("create 10 users") captures ["10"] and returns    *)
(* action workflow, the tag's workflow name and inputs in which the        *)
(* reference is replaced by "10"; in general every positional reference in *)
(* the inputs is replaced by the capture of that position before the       *)
(* inputs are parsed.                                                      *)
(*                                                                         *)
(* The templates: CREATE * USERS has inputs {"count": "<star index="1"/>"},*)
(* COPY * TO * has inputs {"a": "<star index="2"/>", "b": "<star/>"}.      *)
(***************************************************************************)
Captures == last.match.stars

Member(key, text) == [key |-> key, value |-> JStr(text)]

C18_CapturesSubstitutedIntoInputs ==
  /\ (Selected /\ categories[Winner] = CatCreateUsers) =>
       /\ Len(Captures) = 1
       /\ LastNorm = <<"C", "R", "E", "A", "T", "E", " ">> \o Captures[1]
                       \o <<" ", "U", "S", "E", "R", "S">>
       /\ last.input = InCreate => Captures = << <<"1", "0">> >>
       /\ last.outcome = "result"
       /\ last.result.action = "workflow"
       /\ last.result.workflow = <<"c", "r", "e", "a", "t", "e", "-", "u", "s", "e", "r", "s">>
       /\ last.result.inputs = JObj(<<Member(<<"c", "o", "u", "n", "t">>, Captures[1])>>)
  /\ (Selected /\ categories[Winner] = CatCopy) =>
       /\ Len(Captures) = 2
       /\ LastNorm = <<"C", "O", "P", "Y", " ">> \o Captures[1] \o <<" ", "T", "O", " ">>
                       \o Captures[2]
       /\ last.outcome = "result"
       /\ last.result.action = "workflow"
       /\ last.result.workflow = <<"c", "o", "p", "y">>
       /\ last.result.inputs =
            JObj(<<Member(<<"a">>, Captures[2]), Member(<<"b">>, Captures[1])>>)

\* respond("create 10 users") selected CREATE * USERS and its inputs hold
\* the capture
C18_Witness ==
  /\ Selected /\ categories[Winner] = CatCreateUsers
  /\ last.input = InCreate
  /\ last.result.inputs = JObj(<<Member(<<"c", "o", "u", "n", "t">>, <<"1", "0">>)>>)

(***************************************************************************)
(* C19, as stated: for pattern * OR *, the input "cat or dog" matches and  *)
(* the captured spans are exactly ["cat", "dog"], in left-to-right order.  *)
(***************************************************************************)
HoldsCatOr == \E i \in DOMAIN categories : categories[i] = CatOr

C19_CapturesAsTyped ==
  (Responded /\ last.input = InCatOrDog /\ HoldsCatOr) =>
    /\ Selected /\ categories[Winner] = CatOr
    /\ Captures = << <<"c", "a", "t">>, <<"d", "o", "g">> >>

(***************************************************************************)
(* C19, amended: for pattern * OR *, the input "cat or dog" matches and    *)
(* the captured spans are exactly ["CAT", "DOG"], in left-to-right order:  *)
(* the spans are taken from the normalized input, which is upper-case.     *)
(***************************************************************************)
C19_CapturesOfNormalizedInput ==
  (Responded /\ last.input = InCatOrDog /\ HoldsCatOr) =>
    /\ Selected /\ categories[Winner] = CatOr
    /\ Captures = << <<"C", "A", "T">>, <<"D", "O", "G">> >>

\* respond("cat or dog") selected * OR *, whose template gives capture 2,
\* a comma and capture 1
C19_Witness ==
  /\ Selected /\ categories[Winner] = CatOr
  /\ last.input = InCatOrDog
  /\ Len(Captures) = 2
  /\ last.result.text = Captures[2] \o <<",">> \o Captures[1]

(***************************************************************************)
(* C20: evaluating the same category's template twice from the same        *)
(* session state (variables, topic, preceding response, category store)    *)
(* with the same captures gives the same text and the same side-channel    *)
(* fields, provided no random tag is evaluated.                            *)
(*                                                                         *)
(* Stated on a respond call that drew nothing: the same call, made again   *)
(* from the state the first one found, gives the same outcome, the same    *)
(* match and the same result whatever random.choice would have drawn.      *)
(***************************************************************************)
DrewNothing == \A k \in DOMAIN last.events : last.events[k].kind # "random"

\* the last respond call made again from the state it found, on a fresh
\* engine's history, with oracle deciding the draws
Again(oracle) ==
  RespondCall(last.input, Entering(last.variables0, last.that0, <<>>, oracle), 1)

SameAsLast(call) ==
  /\ call.st.exc = last.exc
  /\ call.returned = (last.outcome = "result")
  /\ call.match = last.match
  /\ call.result = last.result
  /\ call.st.variables = variables
  /\ call.st.that = that

LearnPool == {CatStar, CatHello}

\* add_category template "learned"
BodyLearned == Body(<<"l", "e", "a", "r", "n", "e", "d">>, <<"l", "e", "a", "r", "n", "e", "d">>, <<>>)

\* the arguments of the add_category calls: pattern "hello", in any topic
\* and in topic "deploy"
LearnCategories ==
  { [pattern |-> InHello, body |-> BodyLearned, topic |-> AnyTopic],
    [pattern |-> InHello, body |-> BodyLearned, topic |-> TopicDeploy] }

LearnInputs == {InHello, InAB}

LearnInit == EngineInit(StoresUpTo(LearnPool, MaxCats))

LearnNext ==
  \/ \E inputText \in LearnInputs : Respond(inputText)
  \/ \E newTopic \in SessionTopics : SetTopic(newTopic)
  \/ \E c \in LearnCategories : AddCategory(c.pattern, c.body, c.topic)

LearnSpec == LearnInit /\ [][LearnNext]_vars

(***************************************************************************)
(* C21: add_category appends the new category as the last element of the   *)
(* store and leaves the earlier categories and their order as they were;   *)
(* and in a later respond call the category at the end of the store is     *)
(* selected exactly when it qualifies, aligns with the input and scores    *)
(* strictly higher than every qualifying, aligning category before it, so  *)
(* it never displaces an earlier category of equal score.                  *)
(***************************************************************************)
\* category i of store qualifies and aligns, for topic t, preceding
\* response th and normalized input norm
CandidateIn(store, i, t, th, norm) ==
  Qualifies(store[i], t, th) /\ AlignsWith(store[i], norm)

\* the call selected the last category of store
SelectedLast(store, call) ==
  call.match.matched /\ call.match.category = Len(store)

LastWinsOnlyStrictly(store, t, th, call) ==
  LET n    == Len(store)
      norm == Normalize(call.input)
  IN  n > 0 =>
        (SelectedLast(store, call) <=>
           /\ CandidateIn(store, n, t, th, norm)
           /\ \A j \in 1..(n - 1) :
                CandidateIn(store, j, t, th, norm) => ScoreOf(store[n]) > ScoreOf(store[j]))

AppendedLast(store, call, after) ==
  /\ Len(after) = Len(store) + 1
  /\ IsPrefix(store, after)
  /\ after[Len(after)].pattern = Upper(call.input)

C21_WitnessEqualScore ==
  /\ Selected /\ Winner < Len(categories)
  /\ categories[Len(categories)].template = Wrapped(BodyLearned)
  /\ Len(categories) \in Candidates
  /\ ScoreOf(categories[Len(categories)]) = ScoreOf(categories[Winner])

(***************************************************************************)
(* TagSpec: respond and set_variable on an engine whose templates hold     *)
(* compute tags and multi-branch condition tags.  Every branch of the      *)
(* conditions assigns a variable named after its position, so that the     *)
(* trace tells which branches were evaluated.                              *)
(***************************************************************************)
\* pattern "SUM", <template><compute>2 + 2</compute></template>
CatSum ==
  Category(<<"S", "U", "M">>,
    WellFormed(TemplateRoot(<<>>,
    <<Elem("compute", NoAttrs, <<"2", " ", "+", " ", "2">>,
      <<>>,
      <<>>)>>)),
    None, AnyTopic)

\* pattern "HALF", <template>[<compute>2 + </compute>]</template>
CatHalfSum ==
  Category(<<"H", "A", "L", "F">>,
    WellFormed(TemplateRoot(<<"[">>,
    <<Elem("compute", NoAttrs, <<"2", " ", "+", " ">>,
      <<>>,
      <<"]">>)>>)),
    None, AnyTopic)

\* pattern "CALC * BY *", <template><compute><star/> * (<star index="2"/> - 10)</compute></template>
CatCalc ==
  Category(<<"C", "A", "L", "C", " ", "*", " ", "B", "Y", " ", "*">>,
    WellFormed(TemplateRoot(<<>>,
    <<Elem("compute", NoAttrs, <<>>,
      <<Elem("star", NoAttrs, <<>>,
        <<>>,
        <<" ", "*", " ", "(">>),
      Elem("star", [index |-> <<"2">>], <<>>,
        <<>>,
        <<" ", "-", " ", "1", "0", ")">>)>>,
      <<>>)>>)),
    None, AnyTopic)

\* pattern "PICK", <template><condition name="v"><li value="a">one<set name="1">!</set></li><li name="u" value="b">two<set name="2">!</set></li><li>rest<set name="3">!</set></li><li value="a">late<confirm/><set name="4">!</set></li></condition></template>
CatPick ==
  Category(<<"P", "I", "C", "K">>,
    WellFormed(TemplateRoot(<<>>,
    <<Elem("condition", [name |-> <<"v">>], <<>>,
      <<Elem("li", [value |-> <<"a">>], <<"o", "n", "e">>,
        <<Elem("set", [name |-> <<"1">>], <<"!">>,
          <<>>,
          <<>>)>>,
        <<>>),
      Elem("li", [name |-> <<"u">>, value |-> <<"b">>], <<"t", "w", "o">>,
        <<Elem("set", [name |-> <<"2">>], <<"!">>,
          <<>>,
          <<>>)>>,
        <<>>),
      Elem("li", NoAttrs, <<"r", "e", "s", "t">>,
        <<Elem("set", [name |-> <<"3">>], <<"!">>,
          <<>>,
          <<>>)>>,
        <<>>),
      Elem("li", [value |-> <<"a">>], <<"l", "a", "t", "e">>,
        <<Elem("confirm", NoAttrs, <<>>,
          <<>>,
          <<>>),
        Elem("set", [name |-> <<"4">>], <<"!">>,
          <<>>,
          <<>>)>>,
        <<>>)>>,
      <<>>)>>)),
    None, AnyTopic)

\* pattern "ONLY", <template>so <condition name="v"><li value="a">one<set name="1">!</set></li><li value="b">two<confirm/><set name="2">!</set></li></condition> end</template>
CatOnly ==
  Category(<<"O", "N", "L", "Y">>,
    WellFormed(TemplateRoot(<<"s", "o", " ">>,
    <<Elem("condition", [name |-> <<"v">>], <<>>,
      <<Elem("li", [value |-> <<"a">>], <<"o", "n", "e">>,
        <<Elem("set", [name |-> <<"1">>], <<"!">>,
          <<>>,
          <<>>)>>,
        <<>>),
      Elem("li", [value |-> <<"b">>], <<"t", "w", "o">>,
        <<Elem("confirm", NoAttrs, <<>>,
          <<>>,
          <<>>),
        Elem("set", [name |-> <<"2">>], <<"!">>,
          <<>>,
          <<>>)>>,
        <<>>)>>,
      <<" ", "e", "n", "d">>)>>)),
    None, AnyTopic)

TagStore == <<CatSum, CatHalfSum, CatCalc, CatPick, CatOnly>>

\* "sum"
InSum == <<"s", "u", "m">>

\* "half"
InHalf == <<"h", "a", "l", "f">>

\* "calc 3 by 4"
InCalc == <<"c", "a", "l", "c", " ", "3", " ", "b", "y", " ", "4">>

\* "pick"
InPick == <<"p", "i", "c", "k">>

\* "only"
InOnly == <<"o", "n", "l", "y">>

TagInputs == {InSum, InHalf, InCalc, InPick, InOnly}

\* "a"
ValueA == <<"a">>

\* the arguments of the set_variable calls
TagAssignments ==
  { [name |-> NameV, value |-> ValueA], [name |-> NameV, value |-> ValueB],
    [name |-> NameU, value |-> ValueB] }

TagInit == EngineInit({TagStore})

TagNext ==
  \/ \E inputText \in TagInputs : Respond(inputText)
  \/ \E a \in TagAssignments : SetVariable(a.name, a.value)

TagSpec == TagInit /\ [][TagNext]_vars

(***************************************************************************)
(* C22: a compute tag whose content is a well-formed arithmetic expression *)
(* gives the value as text ("2 + 2" gives "4"); when the expression is     *)
(* malformed ("2 + ") it gives the expression text unchanged, character    *)
(* for character, and raises nothing.                                      *)
(*                                                                         *)
(* The templates: SUM is the compute of "2 + 2"; HALF is "[", the compute  *)
(* of "2 + ", "]"; CALC * BY * is the compute of capture 1, " * (",        *)
(* capture 2, " - 10)".                                                    *)
(***************************************************************************)
C22_ComputeValueOrSameText ==
  /\ (Selected /\ categories[Winner] = CatSum) =>
       last.outcome = "result" /\ last.result.text = <<"4">>
  /\ (Selected /\ categories[Winner] = CatCalc /\ last.input = InCalc) =>
       last.outcome = "result" /\ last.result.text = <<"-", "1", "8">>
  /\ (Selected /\ categories[Winner] = CatHalfSum) =>
       last.outcome = "result" /\ last.result.text = <<"[", "2", " ", "+", " ", "]">>

(***************************************************************************)
(* C23: a multi-branch condition tests its branches in document order and  *)
(* evaluates exactly the first branch whose check passes (the variable it  *)
(* names holds the branch's value, or the branch has no value); no later   *)
(* branch is evaluated, so what later branches assign or write never       *)
(* happens; and when no branch passes nothing is evaluated and the         *)
(* condition's output is empty.                                            *)
(*                                                                         *)
(* The templates PICK and ONLY hold one condition each; branch k assigns   *)
(* "!" to the variable named k, and one branch of each holds a confirm.    *)
(***************************************************************************)
\* the selected template holds a multi-branch condition as its only tag
BranchingSelected ==
  /\ Selected /\ categories[Winner].template.wellformed
  /\ Len(categories[Winner].template.root.kids) = 1
  /\ categories[Winner].template.root.kids[1].tag = "condition"
  /\ Attr(categories[Winner].template.root.kids[1], "value", None) = None

TheCondition == categories[Winner].template.root.kids[1]

Branches == FindAll(TheCondition, "li")

\* branch k's check, on the variables the call found
Passes(k) ==
  LET value == Attr(Branches[k], "value", None)
      name  == Attr(Branches[k], "name", Attr(TheCondition, "name", None))
  IN  \/ value = None
      \/ name \in DOMAIN last.variables0 /\ last.variables0[name] = value

\* the first branch that passes, 0 when none does
FirstPassing ==
  IF \E k \in DOMAIN Branches : Passes(k)
    THEN CHOOSE k \in DOMAIN Branches : Passes(k) /\ \A j \in 1..(k - 1) : ~Passes(j)
    ELSE 0

\* the names the call assigned, and whether it wrote to its result
AssignedNames ==
  { last.events[e].name : e \in { e \in DOMAIN last.events : last.events[e].kind = "set" } }

WroteResult == \E e \in DOMAIN last.events : last.events[e].kind = "write"

C23_FirstPassingBranchOnly ==
  BranchingSelected =>
    /\ last.outcome = "result"
    /\ AssignedNames = IF FirstPassing = 0 THEN {} ELSE {IntToStr(FirstPassing)}
    /\ WroteResult <=> (FirstPassing # 0 /\ HasTag(Branches[FirstPassing], "confirm"))
    /\ last.result.text =
         Strip(categories[Winner].template.root.text
               \o (IF FirstPassing = 0 THEN <<>> ELSE Strip(IterText(Branches[FirstPassing])))
               \o TheCondition.tail)
    /\ DOMAIN variables = DOMAIN last.variables0 \cup AssignedNames

\* a branch passed and a later branch, holding a confirm, would have passed
\* too
C23_Witness ==
  /\ BranchingSelected
  /\ FirstPassing # 0
  /\ \E k \in DOMAIN Branches :
       k > FirstPassing /\ Passes(k) /\ HasTag(Branches[k], "confirm")
  /\ ~WroteResult

\* no branch passed
C23_WitnessNonePasses ==
  BranchingSelected /\ FirstPassing = 0 /\ last.variables0 # NoVariables

(***************************************************************************)
(* C24: a respond call that returns no match leaves the session as it was: *)
(* topic, preceding response, variables, history and the category store    *)
(* are unchanged by the call.                                              *)
(***************************************************************************)
C24_NoMatchChangesNothing ==
  [][(last'.op = "respond" /\ last'.outcome = "none") =>
       UNCHANGED <<categories, variables, topic, that, history>>]_vars

\* a respond returned no match in a session that had a topic, a preceding
\* response, variables and history
C24_Witness ==
  /\ Responded /\ last.outcome = "none"
  /\ topic # AnyTopic
  /\ that # <<>>
  /\ variables # NoVariables
  /\ history # <<>>

(***************************************************************************)
(* C25, as stated: whenever a category whose pattern has only literal      *)
(* tokens and a category whose pattern holds at least one wildcard both    *)
(* qualify and both align with the same normalized input, the all-literal  *)
(* category is selected, whatever the order of the two in the store and    *)
(* whatever the number and kind of the wildcards.                          *)
(***************************************************************************)
\* the all-literal pattern of category i is the one selected
LiteralSelected(i) ==
  /\ Selected
  /\ Tokens(categories[Winner]) = Tokens(categories[i])

C25_LiteralBeatsWildcard ==
  Responded =>
    \A i, j \in Candidates :
      (LiteralOnly(Tokens(categories[i])) /\ ~LiteralOnly(Tokens(categories[j])))
        => LiteralSelected(i)

(***************************************************************************)
(* C25, amended: the same for a category whose pattern has at least one    *)
(* token and only literal tokens.  (A pattern of no tokens scores 0 and    *)
(* aligns with the empty input only, where a pattern that is a single      *)
(* narrow wildcard aligns too and scores higher.)                          *)
(***************************************************************************)
C25_NonEmptyLiteralBeatsWildcard ==
  Responded =>
    \A i, j \in Candidates :
      (/\ Tokens(categories[i]) # <<>>
       /\ LiteralOnly(Tokens(categories[i]))
       /\ ~LiteralOnly(Tokens(categories[j])))
        => LiteralSelected(i)

\* the all-literal category comes after an aligned category of two
\* wildcards in the store, and is selected
C25_Witness ==
  /\ Selected
  /\ LiteralOnly(Tokens(categories[Winner])) /\ Tokens(categories[Winner]) # <<>>
  /\ \E j \in Candidates :
       j < Winner /\ WildcardCount(Tokens(categories[j])) >= 2

(***************************************************************************)
(* C26: for every successful match, replacing each wildcard token of the   *)
(* winning pattern, left to right, by its captured span and joining the    *)
(* tokens with single spaces gives back the normalized input: the          *)
(* alignment consumes the whole input, each literal token accounts for     *)
(* exactly one input word, and each captured span is a contiguous run of   *)
(* whole input words.                                                      *)
(***************************************************************************)
\* the words the tokens from token k on account for: a literal token for
\* itself, a wildcard token for the words of its span, from span n on
RECURSIVE WordsCovered(_, _, _, _)
WordsCovered(tokens, k, spans, n) ==
  IF k > Len(tokens) THEN <<>>
  ELSE IF IsWildcardToken(tokens[k])
    THEN Split(spans[n]) \o WordsCovered(tokens, k + 1, spans, n + 1)
    ELSE <<Upper(tokens[k])>> \o WordsCovered(tokens, k + 1, spans, n)

\* a span is whole words with single spaces between them and none around
WholeWords(span) == JoinSpace(Split(span)) = span

C26_AlignmentCoversInput ==
  Selected =>
    /\ Len(Captures) = WildcardCount(Tokens(categories[Winner]))
    /\ \A n \in DOMAIN Captures : WholeWords(Captures[n])
    /\ WordsCovered(Tokens(categories[Winner]), 1, Captures, 1) = Split(LastNorm)
    /\ JoinSpace(Substituted(Tokens(categories[Winner]), 1, Captures, 1)) = LastNorm

\* the winning pattern holds a literal token and a wildcard whose span is
\* two words
C26_Witness ==
  /\ Selected
  /\ \E k \in DOMAIN Tokens(categories[Winner]) :
       ~IsWildcardToken(Tokens(categories[Winner])[k])
  /\ \E n \in DOMAIN Captures : Len(Split(Captures[n])) = 2

(***************************************************************************)
(* C27: srai re-enters respond on the same session before the enclosing    *)
(* call has updated it.  In a turn whose template performs matching        *)
(* sub-calls the history entry of every sub-call is appended before the    *)
(* entry of the enclosing call: one top-level respond appends one history  *)
(* entry per matched call of the chain, the outermost last.                *)
(***************************************************************************)
\* the respond calls of one turn that selected a category, in entry order
MatchedCalls(calls) == SelectSeq(calls, LAMBDA c : c.match.matched)

\* the entries from position k on, (input, text) pairs
EntriesFrom(h, k) == SubSeq(h, k, Len(h))

\* the step was a caller's respond whose template made a matching sub-call
TurnWithMatchingSubCall ==
  /\ last'.op = "respond"
  /\ last' # last \/ history' # history
  /\ Len(MatchedCalls(last'.calls)) >= 2

\* what the step appended: one entry per matched call, every sub-call's
\* input before the last entry, which is the caller's own
AppendedPerMatchedCall ==
  LET matched  == MatchedCalls(last'.calls)
      appended == EntriesFrom(history', Len(history) + 1)
  IN  /\ IsPrefix(history, history')
      /\ Len(appended) = Len(matched)
      /\ appended[Len(appended)][1] = last'.input
      /\ \A c \in 2..Len(matched) :
           \E e \in 1..(Len(appended) - 1) : appended[e][1] = matched[c].input

C27_OneEntryPerMatchedCall ==
  [][TurnWithMatchingSubCall => AppendedPerMatchedCall]_vars

\* the same for the turns that return a result
C27_OneEntryPerMatchedCallOfReturnedTurn ==
  [][(TurnWithMatchingSubCall /\ last'.outcome = "result") => AppendedPerMatchedCall]_vars

\* "hi" has answered through its nested "hello": two entries, the nested
\* call's first
C27_ReturnedTurnWitness ==
  /\ Responded /\ last.outcome = "result"
  /\ Len(MatchedCalls(last.calls)) = 2
  /\ Len(history) = 2
  /\ history[1][1] = last.calls[2].input
  /\ history[2][1] = last.input

(***************************************************************************)
(* LLMFallback and AIMLActionsEngine: the pattern engine with the fallback *)
(* behind it and the pending learn suggestion between two calls.           *)
(***************************************************************************)
\* LLMFallback.known_intents, in the order of the dict
KnownIntents ==
  <<[intent |-> "create",
      keywords |-> <<<<"c", "r", "e", "a", "t", "e">>,
                     <<"m", "a", "k", "e">>,
                     <<"n", "e", "w">>,
                     <<"a", "d", "d">>,
                     <<"s", "p", "i", "n", " ", "u", "p">>>>],
     [intent |-> "delete",
      keywords |-> <<<<"d", "e", "l", "e", "t", "e">>,
                     <<"r", "e", "m", "o", "v", "e">>,
                     <<"d", "e", "s", "t", "r", "o", "y">>,
                     <<"t", "e", "a", "r", " ", "d", "o", "w", "n">>>>],
     [intent |-> "list",
      keywords |-> <<<<"l", "i", "s", "t">>,
                     <<"s", "h", "o", "w">>,
                     <<"g", "e", "t">>,
                     <<"d", "i", "s", "p", "l", "a", "y">>,
                     <<"v", "i", "e", "w">>>>],
     [intent |-> "update",
      keywords |-> <<<<"u", "p", "d", "a", "t", "e">>,
                     <<"m", "o", "d", "i", "f", "y">>,
                     <<"c", "h", "a", "n", "g", "e">>,
                     <<"e", "d", "i", "t">>>>],
     [intent |-> "sync",
      keywords |-> <<<<"s", "y", "n", "c">>,
                     <<"s", "y", "n", "c", "h", "r", "o", "n", "i", "z", "e">>,
                     <<"m", "i", "r", "r", "o", "r">>,
                     <<"r", "e", "p", "l", "i", "c", "a", "t", "e">>>>],
     [intent |-> "deploy",
      keywords |-> <<<<"d", "e", "p", "l", "o", "y">>,
                     <<"r", "e", "l", "e", "a", "s", "e">>,
                     <<"s", "h", "i", "p">>,
                     <<"p", "u", "b", "l", "i", "s", "h">>>>]>>

\* "sub in s" of Python
Contains(sub, s) == \E pos \in 1..(Len(s) + 1) : OccursAt(sub, s, pos)

NoIntent == "None"

\* _classify_intent: the first intent one of whose keywords occurs in the
\* lower-cased input, None when there is none
ClassifyIntent(inputText) ==
  LET hits == { i \in DOMAIN KnownIntents :
                  \E k \in DOMAIN KnownIntents[i].keywords :
                    Contains(KnownIntents[i].keywords[k], Lower(inputText)) }
  IN  IF hits = {} THEN NoIntent ELSE KnownIntents[Least(hits)].intent

KeywordsOf(intent) ==
  LET i == CHOOSE j \in DOMAIN KnownIntents : KnownIntents[j].intent = intent
  IN  Range(KnownIntents[i].keywords)

\* str.isdigit() on ASCII text
IsDigitWord(word) == Len(word) > 0 /\ \A i \in DOMAIN word : word[i] \in DigitSet

\* _suggest_pattern's first loop: the word kept when it is a keyword of the
\* intent or has at most three characters, a star for it otherwise
PatternWord(word, intent) ==
  IF Lower(word) \in KeywordsOf(intent) THEN word
  ELSE IF IsDigitWord(word) THEN <<"*">>
  ELSE IF Len(word) > 3 THEN <<"*">>
  ELSE word

\* _suggest_pattern's second loop: a star that follows a star is dropped
CollapseStars(words) ==
  LET kept == { k \in DOMAIN words : ~(words[k] = <<"*">> /\ k > 1 /\ words[k - 1] = <<"*">>) }
      nth(n) == CHOOSE k \in kept : Cardinality({ j \in kept : j <= k }) = n
  IN  [n \in 1..Cardinality(kept) |-> words[nth(n)]]

\* _suggest_pattern
SuggestPattern(inputText, intent) ==
  LET words == Split(Upper(inputText))
  IN  JoinSpace(CollapseStars([k \in DOMAIN words |-> PatternWord(words[k], intent)]))

\* the text of the suggestion (in the texts of this section an apostrophe
\* stands for each backquote of the source)
SuggestText(pattern) ==
  <<"I", " ", "d", "o", "n", "'", "t", " ", "h", "a", "v", "e", " ", "a", " ", "p", "a", "t", "t", "e", "r", "n", " ", "f", "o", "r", " ", "t", "h", "a", "t", " ", "y", "e", "t", ",", " ", "b", "u", "t", " ", "I", " ", "c", "a", "n", " ", "l", "e", "a", "r", "n", "!", "\n", "\n", "S", "u", "g", "g", "e", "s", "t", "e", "d", " ", "p", "a", "t", "t", "e", "r", "n", ":", " ", "'">> \o pattern \o <<"'", "\n", "\n", "S", "h", "o", "u", "l", "d", " ", "I", " ", "a", "d", "d", " ", "t", "h", "i", "s", " ", "t", "o", " ", "m", "y", " ", "k", "n", "o", "w", "l", "e", "d", "g", "e", "?">>

\* _generate_response's last resort, no model having answered
UltimateFallback == <<"I", "'", "m", " ", "n", "o", "t", " ", "s", "u", "r", "e", " ", "h", "o", "w", " ", "t", "o", " ", "h", "e", "l", "p", " ", "w", "i", "t", "h", " ", "t", "h", "a", "t", ".", " ", "C", "o", "u", "l", "d", " ", "y", "o", "u", " ", "r", "e", "p", "h", "r", "a", "s", "e", " ", "o", "r", " ", "t", "r", "y", " ", "a", " ", "s", "p", "e", "c", "i", "f", "i", "c", " ", "c", "o", "m", "m", "a", "n", "d", " ", "l", "i", "k", "e", ":", "\n", "-", " ", "'", "c", "r", "e", "a", "t", "e", " ", "u", "s", "e", "r", " ", "<", "n", "a", "m", "e", ">", "'", "\n", "-", " ", "'", "l", "i", "s", "t", " ", "r", "e", "p", "o", "s", "'", "\n", "-", " ", "'", "d", "e", "p", "l", "o", "y", " ", "t", "o", " ", "s", "t", "a", "g", "i", "n", "g", "'">>

\* a text a model served over HTTP returns
ServedText == <<"s", "e", "r", "v", "e", "d">>

\* what _generate_response can return: the served text or the last resort
LlmReplies == {ServedText, UltimateFallback}

\* LLMFallback.handle; llmText is what _generate_response returns when it
\* is called
Handle(inputText, llmText) ==
  IF ClassifyIntent(inputText) # NoIntent
    THEN [NewResult EXCEPT
            !.text = SuggestText(SuggestPattern(inputText, ClassifyIntent(inputText))),
            !.action = "suggest_learn",
            !.learn = [pattern |-> SuggestPattern(inputText, ClassifyIntent(inputText)),
                       intent |-> ClassifyIntent(inputText)]]
    ELSE [NewResult EXCEPT !.text = llmText]

\* the inputs AIMLActionsEngine.respond takes for a yes
Confirmations == {<<"y", "e", "s">>, <<"y">>, <<"s", "u", "r", "e">>, <<"o", "k">>, <<"l", "e", "a", "r", "n">>}

\* a confirmation that is compared as typed
ConfirmsAsTyped(inputText) == inputText \in Confirmations

\* input_text.lower() in ["yes", "y", "sure", "ok", "learn"]
Confirms(inputText) == Lower(inputText) \in Confirmations

\* f"Executing {pattern}..." as add_category parses it: plain text, or
\* ParseError when the pattern brings a "<" or "&" (a pattern that brings a
\* complete element is not among the inputs)
LearnedBody(pattern) ==
  LET text == <<"E", "x", "e", "c", "u", "t", "i", "n", "g", " ">> \o pattern \o <<".", ".", ".">>
  IN  IF \E i \in DOMAIN text : text[i] \in {"<", "&"} THEN BadBody(text)
      ELSE Body(text, text, <<>>)

LearnedText(pattern) == <<"L", "e", "a", "r", "n", "e", "d", "!", " ", "I", "'", "l", "l", " ", "r", "e", "m", "e", "m", "b", "e", "r", " ", "'">> \o pattern \o <<"'", " ", "f", "o", "r", " ", "n", "e", "x", "t", " ", "t", "i", "m", "e", ".">>

DeclinedText == <<"N", "o", " ", "p", "r", "o", "b", "l", "e", "m", ",", " ", "I", " ", "w", "o", "n", "'", "t", " ", "l", "e", "a", "r", "n", " ", "t", "h", "a", "t", " ", "p", "a", "t", "t", "e", "r", "n", ".">>

TextResult(text) == [NewResult EXCEPT !.text = text]

ReplyOf(inputText, branch, result) ==
  [op |-> "respond", input |-> inputText, branch |-> branch, result |-> result]

\* AIMLActionsEngine.respond with a suggestion pending
PendingRespond(inputText) ==
  /\ pending_learn # Absent
  /\ pending_learn' = Absent
  /\ IF Confirms(inputText)
       THEN /\ Len(categories) < MaxStore
            /\ categories' = Append(categories,
                 Category(Upper(pending_learn.pattern),
                          Wrapped(LearnedBody(pending_learn.pattern)), None, AnyTopic))
            /\ last' = [InitLast EXCEPT !.op = "add_category",
                                         !.input = pending_learn.pattern,
                                         !.that0 = that, !.variables0 = variables]
            /\ reply' = ReplyOf(inputText, "learned",
                                TextResult(LearnedText(pending_learn.pattern)))
       ELSE /\ reply' = ReplyOf(inputText, "declined", TextResult(DeclinedText))
            /\ UNCHANGED <<categories, last>>
  /\ UNCHANGED <<variables, topic, that, history, adventures, current_state>>

\* result.action == "suggest_learn" and result.learn, for the results of
\* handle: their learn is a dict with entries when the action is set
SuggestsLearn(result) == result.action = "suggest_learn" /\ DOMAIN result.learn # {}

\* AIMLActionsEngine.respond from "# Try AIML first" on, call being what
\* self.aiml.respond did and fallback what self.llm.handle returns if called
AfterAiml(inputText, call, fallback) ==
  /\ Commit(inputText, call)
  /\ IF call.st.exc # NoExc
       THEN /\ reply' = ReplyOf(inputText, "raised", NewResult)
            /\ UNCHANGED pending_learn
       ELSE IF call.returned
         THEN /\ reply' = ReplyOf(inputText, "aiml", call.result)
              /\ UNCHANGED pending_learn
         ELSE /\ reply' = ReplyOf(inputText, "fallback", fallback)
              /\ pending_learn' = IF SuggestsLearn(fallback) THEN fallback.learn
                                    ELSE pending_learn
  /\ UNCHANGED <<adventures, current_state>>

\* AIMLActionsEngine.respond(inputText)
CombinedRespond(inputText) ==
  \/ PendingRespond(inputText)
  \/ /\ pending_learn = Absent
     /\ Len(history) < MaxTurns
     /\ \E oracle \in Oracles : \E llmText \in LlmReplies :
          AfterAiml(inputText,
                    RespondCall(inputText, Entering(variables, that, history, oracle), 1),
                    Handle(inputText, llmText))

(***************************************************************************)
(* CombinedSpec: AIMLActionsEngine over CombinedStore; respond and         *)
(* set_topic in any order.                                                 *)
(***************************************************************************)
\* the store the engine starts with
CombinedStore == <<CatHello, CatLoop>>

\* "create vm 42"
InCreateVm == <<"c", "r", "e", "a", "t", "e", " ", "v", "m", " ", "4", "2">>

\* "show users now"
InShow == <<"s", "h", "o", "w", " ", "u", "s", "e", "r", "s", " ", "n", "o", "w">>

\* "what"
InWhat == <<"w", "h", "a", "t">>

\* "Yes"
InYes == <<"Y", "e", "s">>

\* "yes " with a blank after it
InYesBlank == <<"y", "e", "s", " ">>

\* "no"
InNo == <<"n", "o">>

CombinedInputs == {InHello, InLoop, InCreateVm, InShow, InWhat, InYes, InYesBlank, InNo}

CombinedInit == EngineInit({CombinedStore})

CombinedNext ==
  \/ \E inputText \in CombinedInputs : CombinedRespond(inputText)
  \/ \E newTopic \in SessionTopics : SetTopic(newTopic)

CombinedSpec == CombinedInit /\ [][CombinedNext]_vars

(***************************************************************************)
(* C28: in the combined engine a learn suggestion is pending only directly *)
(* after a fallback answer with action suggest_learn, and it is consumed   *)
(* by exactly the next respond call whatever its input: that call runs     *)
(* neither the pattern matcher nor the fallback, always clears the pending *)
(* suggestion, and adds the suggested pattern to the category store if and *)
(* only if the input is one of yes, y, sure, ok or learn, in any case of   *)
(* the letters.                                                            *)
(***************************************************************************)
\* the step was a respond call of the combined engine (set_topic leaves all
\* of these alone)
RespondStep ==
  /\ reply'.op = "respond"
  /\ <<reply, categories, variables, that, history, pending_learn>>'
       # <<reply, categories, variables, that, history, pending_learn>>

\* a suggestion is pending after a step only when the step was a respond
\* answered by the fallback with suggest_learn, or when it was pending before
\* and no respond was made
PendingOnlyAfterSuggestion ==
  pending_learn' # Absent =>
    IF RespondStep
      THEN /\ reply'.branch = "fallback"
           /\ reply'.result.action = "suggest_learn"
           /\ pending_learn' = reply'.result.learn
      ELSE pending_learn' = pending_learn

\* the respond call made while a suggestion is pending
ConsumedByNextRespond ==
  (pending_learn # Absent /\ RespondStep) =>
    /\ pending_learn' = Absent
    /\ reply'.branch \in {"learned", "declined"}
    /\ last' = last \/ last'.op = "add_category"
    /\ UNCHANGED <<variables, topic, that, history>>
    /\ IF Lower(reply'.input) \in
            {<<"y", "e", "s">>, <<"y">>, <<"s", "u", "r", "e">>, <<"o", "k">>, <<"l", "e", "a", "r", "n">>}
         THEN /\ Len(categories') = Len(categories) + 1
              /\ IsPrefix(categories, categories')
              /\ categories'[Len(categories')].pattern = pending_learn.pattern
              /\ reply'.branch = "learned"
         ELSE /\ categories' = categories
              /\ reply'.branch = "declined"

C28_SuggestionConsumedByNextCall ==
  [][PendingOnlyAfterSuggestion /\ ConsumedByNextRespond]_vars

\* "create vm 42" was answered by the fallback with the suggestion
\* "CREATE VM *" and the next call, "Yes", has added it
C28_Witness ==
  /\ reply.op = "respond" /\ reply.branch = "learned" /\ reply.input = InYes
  /\ pending_learn = Absent
  /\ Len(categories) = Len(CombinedStore) + 1
  /\ categories[Len(categories)].pattern = <<"C", "R", "E", "A", "T", "E", " ", "V", "M", " ", "*">>
  /\ categories[Len(categories)].template.wellformed

\* "show users now" was answered with the suggestion "SHOW * NOW", which
\* is pending
C28_WitnessPending ==
  /\ reply.op = "respond" /\ reply.branch = "fallback"
  /\ pending_learn # Absent
  /\ pending_learn.pattern = <<"S", "H", "O", "W", " ", "*", " ", "N", "O", "W">>
  /\ pending_learn.intent = "list"

\* the suggestion was declined by "yes " with a blank after it
C28_WitnessDeclined ==
  /\ reply.op = "respond" /\ reply.branch = "declined" /\ reply.input = InYesBlank
  /\ pending_learn = Absent
  /\ categories = CombinedStore

\* the learned category answers the input it was suggested for
C28_WitnessLearnedAnswers ==
  /\ reply.op = "respond" /\ reply.branch = "aiml" /\ reply.input = InCreateVm
  /\ reply.result.text = <<"E", "x", "e", "c", "u", "t", "i", "n", "g", " ", "C", "R", "E", "A", "T", "E", " ", "V", "M", " ", "*", ".", ".", ".">>

(***************************************************************************)
(* AdventureEngine (adventure_engine.py).  adventures is the dict of the   *)
(* loaded graphs in loading order, each with the start node of its         *)
(* metadata and its nodes; current_state is the AdventureState of the      *)
(* active adventure or None.  An absent or empty text field of a node or   *)
(* choice (prompt, next, action) is the empty text: the code tests these   *)
(* fields for truth only.  The nodes carry no inputs and no conditions and *)
(* an adventure is started without variables, so _interpolate_text,        *)
(* _interpolate_inputs and _check_condition change nothing.                *)
(***************************************************************************)
NoText == <<>>

\* "end"
EndId == <<"e", "n", "d">>

\* Choice(label, next, action)
Choice(label, next, action) == [label |-> label, next |-> next, action |-> action]

\* _parse_node
Node(id, prompt, choices, action, next, end) ==
  [id |-> id, prompt |-> prompt, choices |-> choices, action |-> action,
   next |-> next, is_end |-> (end \/ id = EndId)]

Adventure(id, start, nodes) == [id |-> id, start |-> start, nodes |-> nodes]

\* position of the entry with this id in a dict kept as a sequence, 0 when
\* the id is not a key
Find(entries, id) ==
  IF \E i \in DOMAIN entries : entries[i].id = id
    THEN CHOOSE i \in DOMAIN entries : entries[i].id = id
    ELSE 0

\* ', '.join(texts)
RECURSIVE JoinComma(_)
JoinComma(texts) ==
  IF Len(texts) = 0 THEN <<>>
  ELSE IF Len(texts) = 1 THEN texts[1]
  ELSE texts[1] \o <<",", " ">> \o JoinComma(Tail(texts))

NoAction == "None"

\* AdventureResponse(text) with the defaults of the other fields
TextResponse(text) ==
  [text |-> text, choices |-> Absent, action |-> NoAction, inputs |-> Absent,
   is_end |-> FALSE, adventure_id |-> Absent]

\* the inputs of a triggered action: _interpolate_inputs({})
NoInputs == [items |-> <<>>]

\* _format_choices
FormatChoices(choices) ==
  [options |-> [i \in DOMAIN choices |->
                  [value |-> IntToStr(i), label |-> choices[i].label]]]

\* what one call leaves behind: the engine's current_state, whether an
\* exception left the call, and the response when none did
Outcome(state, raised, response) ==
  [state |-> state, raised |-> raised, response |-> response]

\* an end node that leaves the adventure active
AtEndNodeStaysActive(st, node) ==
  Outcome(st, FALSE,
          [TextResponse(IF node.prompt # NoText THEN node.prompt ELSE <<"A", "d", "v", "e", "n", "t", "u", "r", "e", " ", "c", "o", "m", "p", "l", "e", "t", "e", "!">>)
             EXCEPT !.is_end = TRUE, !.adventure_id = [id |-> st.adventure_id]])

\* _process_current_node, "if node.is_end"
AtEndNode(st, node) ==
  Outcome(Absent, FALSE,
          [TextResponse(IF node.prompt # NoText THEN node.prompt ELSE <<"A", "d", "v", "e", "n", "t", "u", "r", "e", " ", "c", "o", "m", "p", "l", "e", "t", "e", "!">>)
             EXCEPT !.is_end = TRUE, !.adventure_id = [id |-> st.adventure_id]])

\* _process_current_node, "# Execute node action if present"
NodeActed(st, node) ==
  IF node.action # NoText
    THEN [st EXCEPT !.actions_triggered =
            Append(@, [workflow |-> node.action, inputs |-> NoInputs])]
    ELSE st

\* _process_current_node's final return, st being the state after the
\* node's action
AtNode(st, node) ==
  Outcome(st, FALSE,
          [TextResponse(node.prompt) EXCEPT
             !.choices = IF node.choices # <<>> THEN FormatChoices(node.choices) ELSE Absent,
             !.action = IF node.action # NoText THEN node.action ELSE NoAction,
             !.inputs = IF node.action # NoText THEN NoInputs ELSE Absent,
             !.adventure_id = [id |-> st.adventure_id]])

\* "# Prepend current node's prompt"
Prepended(node, next) ==
  IF next.raised \/ node.prompt = NoText THEN next
  ELSE [next EXCEPT !.response.text = node.prompt \o <<"\n", "\n">> \o @]

\* current_node = next; history.append(next)
MovedTo(st, next) ==
  [st EXCEPT !.current_node = next, !.history = Append(@, next)]

\* _process_current_node with depth - 1 calls of it already on the stack;
\* the interpreter raises RecursionError past its limit
RECURSIVE ProcessCurrentNode(_, _)
ProcessCurrentNode(st, depth) ==
  IF depth > PyRecursionLimit THEN Outcome(st, TRUE, TextResponse(NoText))
  ELSE
    LET nodes == adventures[Find(adventures, st.adventure_id)].nodes
        at    == Find(nodes, st.current_node)
    IN  IF at = 0
          THEN Outcome(Absent, FALSE, [TextResponse(<<"A", "d", "v", "e", "n", "t", "u", "r", "e", " ", "e", "r", "r", "o", "r", ".">>) EXCEPT !.is_end = TRUE])
        ELSE IF nodes[at].is_end THEN AtEndNode(st, nodes[at])
        ELSE IF nodes[at].choices = <<>> /\ nodes[at].next # NoText
          THEN Prepended(nodes[at],
                 ProcessCurrentNode(MovedTo(NodeActed(st, nodes[at]), nodes[at].next),
                                    depth + 1))
        ELSE AtNode(NodeActed(st, nodes[at]), nodes[at])

\* the most recent call of the adventure engine
Replied(op, input, outcome) ==
  [op |-> op, input |-> input, raised |-> outcome.raised, response |-> outcome.response]

\* the engine after a call that went as outcome says
Leaves(op, input, outcome) ==
  /\ current_state' = outcome.state
  /\ reply' = Replied(op, input, outcome)
  /\ UNCHANGED <<categories, variables, topic, that, history, last,
                 pending_learn, adventures>>

AdventureIds == [i \in DOMAIN adventures |-> adventures[i].id]

\* start_adventure(adventure_id)
StartAdventure(adventure_id) ==
  IF Find(adventures, adventure_id) = 0
    THEN Leaves("start_adventure", adventure_id,
                Outcome(current_state, FALSE,
                        TextResponse(<<"A", "d", "v", "e", "n", "t", "u", "r", "e", " ", "'">> \o adventure_id \o <<"'", " ", "n", "o", "t", " ", "f", "o", "u", "n", "d", ".", " ", "A", "v", "a", "i", "l", "a", "b", "l", "e", ":", " ">>
                                       \o JoinComma(AdventureIds))))
    ELSE Leaves("start_adventure", adventure_id,
                ProcessCurrentNode(
                  [adventure_id |-> adventure_id,
                   current_node |-> adventures[Find(adventures, adventure_id)].start,
                   variables |-> NoVariables,
                   history |-> <<adventures[Find(adventures, adventure_id)].start>>,
                   actions_triggered |-> <<>>], 1))

\* process_choice's three searches: by number, by label, by letter; 0 when
\* none selects a choice
ByNumber(choices, choiceLower) ==
  IF IsDigitWord(choiceLower) /\ DecimalValue(choiceLower) \in DOMAIN choices
    THEN DecimalValue(choiceLower) ELSE 0

ByLabel(choices, choiceLower) ==
  LET hits == { i \in DOMAIN choices : Contains(choiceLower, Lower(choices[i].label)) }
  IN  IF hits = {} THEN 0 ELSE Least(hits)

ByLetter(choices, choiceLower) ==
  LET hits == { i \in DOMAIN choices : i <= Len(LowerLetters) /\ choiceLower = <<LowerLetters[i]>> }
  IN  IF hits = {} THEN 0 ELSE Least(hits)

SelectedChoice(choices, choiceLower) ==
  IF ByNumber(choices, choiceLower) # 0 THEN ByNumber(choices, choiceLower)
  ELSE IF ByLabel(choices, choiceLower) # 0 THEN ByLabel(choices, choiceLower)
  ELSE ByLetter(choices, choiceLower)

\* "# Execute choice action if present"
ChoiceActed(st, choice) ==
  IF choice.action # NoText
    THEN [st EXCEPT !.actions_triggered =
            Append(@, [workflow |-> choice.action, inputs |-> NoInputs])]
    ELSE st

\* "# Include action from choice"
WithChoiceAction(choice, outcome) ==
  IF outcome.raised \/ choice.action = NoText THEN outcome
  ELSE [outcome EXCEPT !.response.action = choice.action, !.response.inputs = NoInputs]

\* process_choice from "# Execute choice action if present" on
Chosen(st, choice) ==
  IF choice.next = NoText \/ choice.next = EndId
    THEN Outcome(Absent, FALSE,
                 [TextResponse(<<"A", "d", "v", "e", "n", "t", "u", "r", "e", " ", "c", "o", "m", "p", "l", "e", "t", "e", "!">>) EXCEPT
                    !.action = IF choice.action # NoText THEN choice.action ELSE NoAction,
                    !.inputs = IF choice.action # NoText THEN NoInputs ELSE Absent,
                    !.is_end = TRUE])
    ELSE WithChoiceAction(choice,
           ProcessCurrentNode(MovedTo(ChoiceActed(st, choice), choice.next), 1))

\* process_choice with an adventure active
ChoiceAt(st, nodes, at, choiceLower) ==
  IF at = 0
    THEN Outcome(Absent, FALSE, [TextResponse(<<"A", "d", "v", "e", "n", "t", "u", "r", "e", " ", "e", "r", "r", "o", "r", ":", " ", "n", "o", "d", "e", " ", "n", "o", "t", " ", "f", "o", "u", "n", "d", ".">>) EXCEPT !.is_end = TRUE])
  ELSE IF SelectedChoice(nodes[at].choices, choiceLower) = 0
    THEN Outcome(st, FALSE,
                 [TextResponse(<<"I", "n", "v", "a", "l", "i", "d", " ", "c", "h", "o", "i", "c", "e", ".", " ", "P", "l", "e", "a", "s", "e", " ", "s", "e", "l", "e", "c", "t", " ", "f", "r", "o", "m", " ", "t", "h", "e", " ", "o", "p", "t", "i", "o", "n", "s", " ", "a", "b", "o", "v", "e", ".">>) EXCEPT !.choices = FormatChoices(nodes[at].choices)])
  ELSE Chosen(st, nodes[at].choices[SelectedChoice(nodes[at].choices, choiceLower)])

\* the longest path a checked adventure is followed
MaxPath == 8

\* process_choice(choice_input)
ProcessChoice(choiceInput) ==
  IF current_state = Absent
    THEN Leaves("process_choice", choiceInput,
                Outcome(current_state, FALSE, TextResponse(<<"N", "o", " ", "a", "d", "v", "e", "n", "t", "u", "r", "e", " ", "i", "s", " ", "c", "u", "r", "r", "e", "n", "t", "l", "y", " ", "a", "c", "t", "i", "v", "e", ".">>)))
    ELSE /\ Len(current_state.history) < MaxPath
         /\ Leaves("process_choice", choiceInput,
                   ChoiceAt(current_state,
                            adventures[Find(adventures, current_state.adventure_id)].nodes,
                            Find(adventures[Find(adventures, current_state.adventure_id)].nodes,
                                 current_state.current_node),
                            Strip(Lower(choiceInput))))

\* cancel_adventure()
CancelAdventure ==
  IF current_state # Absent
    THEN Leaves("cancel_adventure", NoText,
                Outcome(Absent, FALSE,
                        [TextResponse(<<"A", "d", "v", "e", "n", "t", "u", "r", "e", " ", "'">> \o current_state.adventure_id \o <<"'", " ", "c", "a", "n", "c", "e", "l", "l", "e", "d", ".">>)
                           EXCEPT !.is_end = TRUE]))
    ELSE Leaves("cancel_adventure", NoText,
                Outcome(current_state, FALSE, TextResponse(<<"N", "o", " ", "a", "d", "v", "e", "n", "t", "u", "r", "e", " ", "t", "o", " ", "c", "a", "n", "c", "e", "l", ".">>)))

(***************************************************************************)
(* AdventureSpec: an engine with three adventures loaded; start, choose    *)
(* and cancel in any order.                                                *)
(***************************************************************************)
\* adventure "tour": the choices of a lead on, to the end, to nowhere and
\* to a node that does not exist; b and d advance by themselves; c and s
\* lead to each other and back to a
Tour ==
  Adventure(<<"t", "o", "u", "r">>, <<"a">>,
    << Node(<<"a">>, <<"A", "?">>, << Choice(<<"G", "o">>, <<"b">>, <<"w", "f">>), Choice(<<"S", "t", "o", "p">>, NoText, NoText),
                         Choice(<<"Q", "u", "i", "t">>, EndId, <<"w", "f">>), Choice(<<"L", "o", "s", "t">>, <<"z">>, NoText),
                         Choice(<<"D", "o", "w", "n">>, <<"d">>, NoText), Choice(<<"F", "i", "n", "e">>, <<"f">>, NoText) >>,
            NoText, NoText, FALSE),
       Node(<<"b">>, <<"B">>, <<>>, <<"b", "u", "i", "l", "d">>, <<"c">>, FALSE),
       Node(<<"c">>, <<"C", "?">>, << Choice(<<"A", "g", "a", "i", "n">>, <<"a">>, NoText),
                                      Choice(<<"S", "i", "d", "e">>, <<"s">>, NoText) >>,
            NoText, NoText, FALSE),
       Node(<<"s">>, <<"S", "?">>, << Choice(<<"B", "a", "c", "k">>, <<"c">>, <<"w", "f">>),
                                      Choice(<<"H", "o", "m", "e">>, <<"a">>, NoText) >>,
            NoText, NoText, FALSE),
       Node(<<"d">>, NoText, <<>>, NoText, EndId, FALSE),
       Node(<<"f">>, <<"F", ".">>, <<>>, NoText, NoText, TRUE),
       Node(EndId, NoText, <<>>, NoText, NoText, FALSE) >>)

\* adventure "ring": p and q advance by themselves, to each other
Ring ==
  Adventure(<<"r", "i", "n", "g">>, <<"p">>,
    << Node(<<"p">>, <<"P">>, <<>>, NoText, <<"q">>, FALSE),
       Node(<<"q">>, NoText, <<>>, NoText, <<"p">>, FALSE) >>)

\* adventure "hole": its start node does not exist
Hole == Adventure(<<"h", "o", "l", "e">>, <<"z">>, << Node(<<"a">>, <<"A", "?">>, <<>>, NoText, NoText, FALSE) >>)

Library == <<Tour, Ring, Hole>>

\* an id no adventure has
Unknown == <<"n", "o", "n", "e">>

StartIds == {Tour.id, Ring.id, Hole.id, Unknown}

ChoiceInputs == {<<"1">>, <<"2">>, <<"3">>, <<"9">>, <<" ", "G", "O", " ">>, <<"b">>, <<"x">>, <<"e">>, NoText, <<"f", "i">>, <<"o", "w">>}

AdventureInit ==
  /\ categories = <<>>
  /\ variables = NoVariables
  /\ topic = AnyTopic
  /\ that = <<>>
  /\ history = <<>>
  /\ last = InitLast
  /\ pending_learn = Absent
  /\ adventures = Library
  /\ current_state = Absent
  /\ reply = NoReply

AdventureNext ==
  \/ \E adventure_id \in StartIds : StartAdventure(adventure_id)
  \/ \E choiceInput \in ChoiceInputs : ProcessChoice(choiceInput)
  \/ CancelAdventure

AdventureSpec == AdventureInit /\ [][AdventureNext]_vars

(***************************************************************************)
(* C29: every response of the adventure engine with is_end = true (an end  *)
(* node reached, a selected choice with no next node or with next = end, a *)
(* missing node, or cancel) leaves no adventure active, and the engine     *)
(* then stays inactive, process_choice and cancel_adventure changing no    *)
(* state, until the next start_adventure with a known adventure id.        *)
(***************************************************************************)
AdventureOps == {"start_adventure", "process_choice", "cancel_adventure"}

\* the step's call returned a response that ends the adventure
EndingResponse ==
  reply'.op \in AdventureOps /\ ~reply'.raised /\ reply'.response.is_end

\* the step's call was start_adventure with the id of a loaded adventure
StartOfKnown ==
  reply'.op = "start_adventure" /\ Find(adventures, reply'.input) # 0

C29_EndLeavesEngineInactive ==
  [][/\ EndingResponse => current_state' = Absent
     /\ (current_state = Absent /\ ~StartOfKnown) =>
          UNCHANGED <<current_state, adventures>>]_vars

\* a choice led through a node that advances by itself to the end node of
\* "tour", and the engine is inactive
C29_Witness ==
  /\ reply.op = "process_choice" /\ ~reply.raised
  /\ reply.response.is_end
  /\ reply.response.text = <<"A", "d", "v", "e", "n", "t", "u", "r", "e", " ", "c", "o", "m", "p", "l", "e", "t", "e", "!">>
  /\ reply.response.adventure_id = [id |-> Tour.id]
  /\ current_state = Absent

\* process_choice on the inactive engine
C29_WitnessInactiveChoice ==
  /\ reply.op = "process_choice" /\ ~reply.raised
  /\ reply.response.text = <<"N", "o", " ", "a", "d", "v", "e", "n", "t", "u", "r", "e", " ", "i", "s", " ", "c", "u", "r", "r", "e", "n", "t", "l", "y", " ", "a", "c", "t", "i", "v", "e", ".">>
  /\ current_state = Absent

(***************************************************************************)
(* C30: every start_adventure and process_choice call returns a response,  *)
(* for every loaded graph: the automatic advance through nodes that have a *)
(* next node and no choices reaches a node with choices, an end node or a  *)
(* missing node after finitely many steps, also when such nodes point at   *)
(* each other in a cycle.                                                  *)
(***************************************************************************)
C30_EveryCallReturnsResponse ==
  reply.op \in {"start_adventure", "process_choice"} => ~reply.raised

\* an advance over two nodes: "Go" from a over b to c, with both prompts
C30_AdvanceWitness ==
  /\ reply.op = "process_choice" /\ ~reply.raised
  /\ reply.response.text = <<"B", "\n", "\n", "C", "?">>
  /\ reply.response.action = <<"w", "f">>
  /\ current_state # Absent
  /\ current_state.current_node = <<"c">>
  /\ current_state.actions_triggered =
       <<[workflow |-> <<"w", "f">>, inputs |-> NoInputs], [workflow |-> <<"b", "u", "i", "l", "d">>, inputs |-> NoInputs]>>

====
